---- MODULE Spec2Model ----
(***************************************************************************)
(* Model of the resume-tailoring pipeline of ResumeBuilder:                *)
(*   - the LaTeX validator / repairer (web-app/src/lib/validateLatex.ts),  *)
(*   - the headless LinkedIn scraper (lib/linkedinScraper),                *)
(*   - the tailoring function generateCustomResume (lib/resumeGenerator),  *)
(*   - the API routes POST /api/resumes, PUT /api/resumes/[id] and         *)
(*     POST /api/extension/resume/generate-from-linkedin.                  *)
(*                                                                         *)
(* A document is a sequence of one-character strings.  An error message    *)
(* or a URL is a sequence of tokens (words and punctuation), and           *)
(* String.prototype.includes is containment of a contiguous run of tokens. *)
(***************************************************************************)
EXTENDS Integers, Sequences, FiniteSets, TLC

VARIABLES
    \* ---- validator specification (SpecLatex) ----
    doc,              \* the document handed to the validator
    latexPc,          \* "input" | "validated" | "repaired" | "revalidated" | "rerepaired"
    isValid,          \* result of quickValidateLatex(doc)
    repaired,         \* balanceLatexTags(doc)
    repairedValid,    \* quickValidateLatex(repaired)
    repairedTwice,    \* balanceLatexTags(repaired)
    \* ---- canonical job URL specification (SpecUrl) ----
    jobContent,       \* the job content handed to resolveLinkedInJobUrl
    activeTab,        \* the popup's activeTab (its url)
    domExtracted,     \* what extractLinkedInJobUrlFromDom finds in the page
    urlPc,            \* "input" | "resolved"
    resolved,         \* result of resolveLinkedInJobUrl
    normPc,           \* "input" | "normalized"
    contentUrl,       \* ContentScript.normalizeLinkedInJobUrl(jobContent.url)
    popupUrl,         \* PopupController.normalizeLinkedInJobUrl(jobContent.url)
    \* ---- background coordinator specification (SpecBg) ----
    inits,            \* BackgroundService.init() runs started
    initPc,           \* position of each init run: "none" | "session" | "setup" | "done"
    readySms,         \* the init runs whose SessionManager has isReady = true
    registered,       \* times setupEventListeners has run
    waitPc,           \* position of waitForServices
    waitResponse,     \* the response waitForServices awaits or got
    sessionStatus,    \* what waitForServices returned
    polls,            \* GET_SESSION_STATUS queries sent, up to MaxPolls
    sendResponses,    \* sendResponse invocations for the last message
    \* ---- error text specification (SpecErr) ----
    errBody,          \* status and body of the backend's failed response
    errPc,            \* "input" | "sent" | "shown"
    responseError,    \* error of the background's response to the popup
    statusMessage,    \* text given to setResumeStatusMessage
    notification,     \* text given to showError or showGenerateError
    \* ---- popup specification (SpecPopup) ----
    isLoggedIn,       \* PopupController.isLoggedIn
    isLinkedInJob,    \* PopupController.isLinkedInJob
    isGeneratingResume, \* PopupController.isGeneratingResume
    genPc,            \* position of each handleGenerateResume invocation
    requestsInFlight, \* GENERATE_TAILORED_RESUME messages sent and not answered
    initialized,      \* AuthService.initialized
    initPromise,      \* AuthService.initPromise: "null" | "pending" | "settled"
    authPc,           \* position of each AuthService.init() call
    doInits,          \* runs of _doInit started
    \* ---- resume status cache specification (SpecCache) ----
    serverVersion,    \* master resumes the server has stored so far
    statusCache,      \* storage.local resumeStatus: NoCache or the version it was computed from
    getPc,            \* position of each GET_RESUME_STATUS handler
    getLocal,         \* the server version each handler's resumeData was computed from
    upPc,             \* position of each UPLOAD_RESUME handler
    upVersion,        \* the server version each upload produced
    completedVersion, \* newest version whose upload has answered with success
    staleServed,      \* a response came from a cache older than completedVersion
    \* ---- message listener specification (SpecMsg) ----
    msgSide,          \* the listener invoked: "background" | "content"
    msgType,          \* request.type
    msgSteps,         \* what the handler still does in this invocation
    msgSends,         \* sendResponse calls of this invocation
    msgPc,            \* "none" | "handling" | "done"
    \* ---- description cascade specification (SpecCascade) ----
    page,             \* what the selectors of the cascade find in the page
    cascadePc,        \* the next step of the cascade, 1 to 5, 6 behind the last
    bestDescription,  \* length of the scraper's local jobDescription
    \* ---- request specification (Spec) ----
    master,           \* user.masterResume
    resumes,          \* user.resumes, as stored
    route,            \* the route serving the current request
    pc,               \* position of the handler
    req,              \* the request's inputs
    script,           \* what the generative service answers to call k
    attempts,         \* the retry loop's counter
    calls,            \* generative calls issued in this request
    inFlight,         \* generative calls issued and not yet completed
    validatedAt,      \* calls value at the first attempt that validated, 0 if none
    customizedResume, \* the handler's local of that name
    genError,         \* message of the error the last attempt threw, <<>> if none
    jobData,          \* the scraper's jobData
    browser,          \* "null" | "open" | "closed"
    launches,         \* browsers launched in this request
    closes,           \* browser.close() calls in this request
    thrown,           \* message of the error in flight, <<>> if none
    scrapeResult,     \* "none" | "returned" | "threw"
    exitRoute,        \* where scrapeLinkedInJob left its main path
    response          \* the HTTP response of the current request

latexVars == <<doc, latexPc, isValid, repaired, repairedValid, repairedTwice>>

urlVars == <<jobContent, activeTab, domExtracted, urlPc, resolved, normPc,
             contentUrl, popupUrl>>

bgVars == <<inits, initPc, readySms, registered, waitPc, waitResponse,
            sessionStatus, polls, sendResponses>>

errVars == <<errBody, errPc, responseError, statusMessage, notification>>

popupVars == <<isLoggedIn, isLinkedInJob, isGeneratingResume, genPc,
               requestsInFlight, initialized, initPromise, authPc, doInits>>

cascadeVars == <<page, cascadePc, bestDescription>>

cacheVars == <<serverVersion, statusCache, getPc, getLocal, upPc, upVersion,
               completedVersion, staleServed>>

msgVars == <<msgSide, msgType, msgSteps, msgSends, msgPc>>

extVars == <<bgVars, errVars, popupVars, cascadeVars, cacheVars, msgVars>>

reqVars == <<master, resumes, route, pc, req, script, attempts, calls, inFlight,
             validatedAt, customizedResume, genError, jobData, browser,
             launches, closes, thrown, scrapeResult, exitRoute, response>>

nonBgVars == <<latexVars, urlVars, reqVars, errVars, popupVars, cascadeVars,
                  cacheVars, msgVars>>

nonErrVars == <<latexVars, urlVars, reqVars, bgVars, popupVars, cascadeVars,
                  cacheVars, msgVars>>

nonPopupVars == <<latexVars, urlVars, reqVars, bgVars, errVars, cascadeVars,
                  cacheVars, msgVars>>

nonCacheVars == <<latexVars, urlVars, reqVars, bgVars, errVars, popupVars,
                  cascadeVars, msgVars>>

nonMsgVars == <<latexVars, urlVars, reqVars, bgVars, errVars, popupVars,
                cascadeVars, cacheVars>>

nonCascadeVars == <<latexVars, urlVars, reqVars, bgVars, errVars, popupVars,
                  cacheVars, msgVars>>

vars == <<doc, latexPc, isValid, repaired, repairedValid, repairedTwice,
          jobContent, activeTab, domExtracted, urlPc, resolved, normPc,
          contentUrl, popupUrl, inits, initPc, readySms, registered, waitPc,
          waitResponse, sessionStatus, polls, sendResponses, errBody, errPc,
          responseError, statusMessage, notification, isLoggedIn,
          isLinkedInJob, isGeneratingResume, genPc, requestsInFlight,
          initialized, initPromise, authPc, doInits, page, cascadePc,
          bestDescription, serverVersion, statusCache, getPc, getLocal, upPc,
          upVersion, completedVersion, staleServed, msgSide, msgType, msgSteps,
          msgSends, msgPc, master, resumes, route, pc, req, script,
          attempts, calls, inFlight, validatedAt, customizedResume, genError,
          jobData, browser, launches, closes, thrown, scrapeResult, exitRoute,
          response>>

----------------------------------------------------------------------------
(* Bounds *)

\* documents handed to the validator are made of at most MaxChunks chunks
MaxChunks == 3

\* stored tailored resumes per user
MaxResumes == 2

----------------------------------------------------------------------------
(* Characters *)

Letters ==
    {"a","b","c","d","e","f","g","h","i","j","k","l","m",
     "n","o","p","q","r","s","t","u","v","w","x","y","z",
     "A","B","C","D","E","F","G","H","I","J","K","L","M",
     "N","O","P","Q","R","S","T","U","V","W","X","Y","Z"}

Digits == {"0","1","2","3","4","5","6","7","8","9"}

\* the characters JavaScript's \s and trim() treat as white space
\* (of which documents here use the blank and the line feed)
Whitespace == {" ", "\n", "\t", "\r"}

\* [a-zA-Z0-9*]
EnvNameChars == Letters \cup Digits \cup {"*"}

\* does the literal lit occur in s at position i
MatchAt(s, i, lit) ==
    /\ i >= 1
    /\ i + Len(lit) - 1 <= Len(s)
    /\ \A k \in 1..Len(lit) : s[i + k - 1] = lit[k]

\* str.includes(sub)
Includes(s, sub) == \E i \in 1..(Len(s) + 1) : MatchAt(s, i, sub)

\* str.startsWith(sub)
StartsWith(s, sub) == MatchAt(s, 1, sub)

\* first position at or after i holding a character outside set (Len(s)+1 if none)
RECURSIVE SkipWhile(_, _, _)
SkipWhile(s, i, set) ==
    IF i <= Len(s) /\ s[i] \in set THEN SkipWhile(s, i + 1, set) ELSE i

\* last position at or before i holding a character outside set (0 if none)
RECURSIVE SkipBack(_, _, _)
SkipBack(s, i, set) ==
    IF i >= 1 /\ s[i] \in set THEN SkipBack(s, i - 1, set) ELSE i

\* str.trim()
Trim(s) == SubSeq(s, SkipWhile(s, 1, Whitespace), SkipBack(s, Len(s), Whitespace))

----------------------------------------------------------------------------
(* validateLatex.ts *)

BeginKw == <<"\\", "b", "e", "g", "i", "n", "{">>

EndKw == <<"\\", "e", "n", "d", "{">>

\* as BraceCount, counting the opening braces only
RECURSIVE BraceCountMutant(_, _, _, _)
BraceCountMutant(s, i, braceCount, stopOnNegative) ==
    IF i > Len(s) THEN braceCount
    ELSE BraceCountMutant(s, i + 1,
                          IF s[i] = "{" THEN braceCount + 1 ELSE braceCount,
                          stopOnNegative)

\* the loops over the braces: the running count after position i, and -1 as
\* soon as the count went negative when stopOnNegative is set
RECURSIVE BraceCount(_, _, _, _)
BraceCount(s, i, braceCount, stopOnNegative) ==
    IF i > Len(s) THEN braceCount
    ELSE LET c == IF s[i] = "{" THEN braceCount + 1
                  ELSE IF s[i] = "}" THEN braceCount - 1
                  ELSE braceCount
         IN  IF stopOnNegative /\ c < 0 THEN -1
             ELSE BraceCount(s, i + 1, c, stopOnNegative)

\* as HasLatexCommands, without the terminator after the letters
HasLatexCommandsMutant(s) ==
    \E i \in 1..Len(s) :
        /\ s[i] = "\\"
        /\ SkipWhile(s, i + 1, Letters) > i + 1

\* /\\[a-zA-Z]+(\{|\s|$)/.test(s)
HasLatexCommands(s) ==
    \E i \in 1..Len(s) :
        /\ s[i] = "\\"
        /\ LET j == SkipWhile(s, i + 1, Letters)
           IN  /\ j > i + 1
               /\ \/ j > Len(s)
                  \/ s[j] \in ({"{"} \cup Whitespace)

\* the name captured by /\\begin\{([a-zA-Z0-9*]+)\}/ (kw = BeginKw) or by
\* /\\end\{([a-zA-Z0-9*]+)\}/ (kw = EndKw) matching at position i; <<>> if
\* the expression does not match there
EnvNameAt(s, i, kw) ==
    IF MatchAt(s, i, kw)
    THEN LET j == i + Len(kw)
             k == SkipWhile(s, j, EnvNameChars)
         IN  IF k > j /\ k <= Len(s) /\ s[k] = "}"
             THEN SubSeq(s, j, k - 1)
             ELSE <<>>
    ELSE <<>>

\* the names of all matches of the global expression, in document order
RECURSIVE EnvMatches(_, _, _)
EnvMatches(s, i, kw) ==
    IF i > Len(s) THEN <<>>
    ELSE LET name == EnvNameAt(s, i, kw)
         IN  IF name # <<>>
             THEN <<name>> \o EnvMatches(s, i + Len(kw) + Len(name) + 1, kw)
             ELSE EnvMatches(s, i + 1, kw)

\* envNames.get(name) || 0
MapGet(m, name) == IF name \in DOMAIN m THEN m[name] ELSE 0

\* envNames.set(name, v)
MapSet(m, name, v) ==
    [x \in (DOMAIN m) \cup {name} |-> IF x = name THEN v ELSE m[x]]

\* for (const begin of beginEnvs) envNames.set(name, (envNames.get(name) || 0) + 1)
RECURSIVE CountBegins(_, _, _)
CountBegins(beginEnvs, i, envNames) ==
    IF i > Len(beginEnvs) THEN envNames
    ELSE CountBegins(beginEnvs, i + 1,
                     MapSet(envNames, beginEnvs[i], MapGet(envNames, beginEnvs[i]) + 1))

\* as CloseEnds, comparing only the numbers of begins and ends
CloseEndsMutant(endEnvs, i, envNames) == TRUE

\* for (const end of endEnvs): FALSE when an end finds its count at zero,
\* otherwise whether every count is zero after the loop
RECURSIVE CloseEnds(_, _, _)
CloseEnds(endEnvs, i, envNames) ==
    IF i > Len(endEnvs) THEN \A name \in DOMAIN envNames : envNames[name] = 0
    ELSE LET count == MapGet(envNames, endEnvs[i])
         IN  IF count = 0 THEN FALSE
             ELSE CloseEnds(endEnvs, i + 1, MapSet(envNames, endEnvs[i], count - 1))

EmptyMap == [x \in {} |-> 0]

quickValidateLatex(s) ==
    IF Len(s) = 0 \/ Len(Trim(s)) = 0 THEN FALSE
    ELSE IF BraceCount(s, 1, 0, TRUE) # 0 THEN FALSE
    ELSE IF ~HasLatexCommands(s) THEN FALSE
    ELSE LET beginEnvs == EnvMatches(s, 1, BeginKw)
             endEnvs   == EnvMatches(s, 1, EndKw)
         IN  IF Len(beginEnvs) # Len(endEnvs) THEN FALSE
             ELSE CloseEnds(endEnvs, 1, CountBegins(beginEnvs, 1, EmptyMap))

\* as AppendBraces, appending nothing
AppendBracesMutant(result, braceCount) == result

\* while (braceCount > 0) { result += "}"; braceCount--; }
RECURSIVE AppendBraces(_, _)
AppendBraces(result, braceCount) ==
    IF braceCount > 0 THEN AppendBraces(result \o <<"}">>, braceCount - 1)
    ELSE result

\* as IndexOf, never finding the name
IndexOfMutant(list, x, i) == 0

\* endedEnvs.indexOf(envName), 0 for -1
RECURSIVE IndexOf(_, _, _)
IndexOf(list, x, i) ==
    IF i > Len(list) THEN 0
    ELSE IF list[i] = x THEN i
    ELSE IndexOf(list, x, i + 1)

\* endedEnvs.splice(index, 1)
Splice(list, index) == SubSeq(list, 1, index - 1) \o SubSeq(list, index + 1, Len(list))

\* as CloseEnvs, appending the closing tags in the order of the opens
RECURSIVE CloseEnvsMutant(_, _, _, _)
CloseEnvsMutant(result, beginEnvs, i, endedEnvs) ==
    IF i < 1 THEN result
    ELSE LET envName == beginEnvs[i]
             index   == IndexOf(endedEnvs, envName, 1)
         IN  IF index # 0
             THEN CloseEnvsMutant(result, beginEnvs, i - 1, Splice(endedEnvs, index))
             ELSE CloseEnvsMutant(result, beginEnvs, i - 1, endedEnvs)
                      \o EndKw \o envName \o <<"}">>

\* for (let i = beginEnvs.length - 1; i >= 0; i--) ...
RECURSIVE CloseEnvs(_, _, _, _)
CloseEnvs(result, beginEnvs, i, endedEnvs) ==
    IF i < 1 THEN result
    ELSE LET envName == beginEnvs[i]
             index   == IndexOf(endedEnvs, envName, 1)
         IN  IF index # 0
             THEN CloseEnvs(result, beginEnvs, i - 1, Splice(endedEnvs, index))
             ELSE CloseEnvs(result \o EndKw \o envName \o <<"}">>,
                            beginEnvs, i - 1, endedEnvs)

\* as balanceLatexTags, looking for the environments before the closing
\* braces are appended
balanceLatexTagsMutant(s) ==
    IF Len(s) = 0 THEN <<>>
    ELSE LET braced    == AppendBraces(s, BraceCount(s, 1, 0, FALSE))
             beginEnvs == EnvMatches(s, 1, BeginKw)
             endedEnvs == EnvMatches(s, 1, EndKw)
         IN  CloseEnvs(braced, beginEnvs, Len(beginEnvs), endedEnvs)

balanceLatexTags(s) ==
    IF Len(s) = 0 THEN <<>>
    ELSE LET braced    == AppendBraces(s, BraceCount(s, 1, 0, FALSE))
             beginEnvs == EnvMatches(braced, 1, BeginKw)
             endedEnvs == EnvMatches(braced, 1, EndKw)
         IN  CloseEnvs(braced, beginEnvs, Len(beginEnvs), endedEnvs)

----------------------------------------------------------------------------
(* Documents handed to the validator *)

Chunks ==
    { BeginKw \o <<"a", "}">>,          \* \begin{a}
      EndKw \o <<"a", "}">>,            \* \end{a}
      BeginKw \o <<"b", "}">>,          \* \begin{b}
      EndKw \o <<"b", "}">>,            \* \end{b}
      BeginKw \o <<"a">>,               \* \begin{a   (unterminated)
      EndKw \o <<"a">>,                 \* \end{a     (unterminated)
      <<"\\", "x">>,                    \* \x
      <<"{">>,
      <<"}">>,
      <<" ">>,
      <<"1">> }

RECURSIVE DocsOf(_)
DocsOf(n) ==
    IF n = 0 THEN {<<>>}
    ELSE {c \o d : c \in Chunks, d \in DocsOf(n - 1)}

\* \begin{itemize}\item{A}
ExampleItemize ==
    BeginKw \o <<"i", "t", "e", "m", "i", "z", "e", "}">>
            \o <<"\\", "i", "t", "e", "m", "{", "A", "}">>

\* \begin{itemize}\item{A
ExampleItemizeOpen == SubSeq(ExampleItemize, 1, Len(ExampleItemize) - 1)

Docs ==
    UNION {DocsOf(n) : n \in 0..MaxChunks} \cup {ExampleItemize, ExampleItemizeOpen}

----------------------------------------------------------------------------
(* Messages: sequences of tokens.  A message is split so that every literal  *)
(* the code searches for with includes() is a run of whole tokens wherever   *)
(* it occurs in the message as a substring.                                  *)

\* linkedinScraper, thrown before the try block
MsgInvalidUrl == <<"Invalid", "LinkedIn", "job", "URL">>

\* linkedinScraper, thrown in the try block
MsgChromeNotFound ==
    <<"Chrome/Chromium", "executable", "not", "found", ".", "Please", "install",
      "Google", "Chrome", "or", "set", "the", "CHROME_PATH", "environment",
      "variable", "to", "point", "to", "your", "Chrome", "executable", ".">>

MsgCouldNotExtract ==
    <<"Could", "not", "extract", "job", "information", "from", "the", "page">>

MsgNoDescription ==
    <<"Unable", "to", "locate", "job", "description", ".", "The", "job",
      "posting", "may", "require", "authentication", "or", "the",
      "description", "may", "be", "missing", ".">>

\* errors of the browser driver
MsgLaunchFailed == <<"Failed", "to", "launch", "the", "browser", "process", "!">>

MsgNavigationTimeout == <<"Navigation", "timeout", "of", "30000", "ms", "exceeded">>

MsgNetErr == <<"net::ERR", "_NAME_NOT_RESOLVED", "at", "https://www.linkedin.com/jobs/view/1">>

MsgTargetClosed == <<"Protocol", "error", ":", "Target", "closed", ".">>

\* linkedinScraper, the messages the catch block throws instead
MsgChromeNotFoundUser ==
    <<"Chrome/Chromium", "executable", "not", "found", ".", "Please", "install",
      "Google", "Chrome", "or", "set", "the", "CHROME_PATH", "environment",
      "variable", ".">>

MsgInvalidUrlUser ==
    <<"Invalid", "LinkedIn", "job", "URL", ".", "Please", "ensure", "the", "URL",
      "is", "a", "valid", "LinkedIn", "job", "posting", "link", ".">>

MsgTimeoutUser ==
    <<"Request", "timed", "out", ".", "The", "LinkedIn", "page", "took", "too",
      "long", "to", "load", ".", "Please", "try", "again", "or", "verify",
      "the", "URL", "is", "accessible", ".">>

MsgNetworkUser ==
    <<"Network", "error", ".", "Unable", "to", "reach", "LinkedIn", ".",
      "Please", "check", "your", "internet", "connection", "and", "try",
      "again", ".">>

MsgNoDescriptionUser ==
    <<"Unable", "to", "locate", "job", "description", ".", "The", "job",
      "posting", "may", "require", "authentication", "or", "the",
      "description", "may", "be", "missing", ".", "Please", "enter", "the",
      "details", "manually", ".">>

MsgCouldNotExtractUser ==
    <<"We", "couldn't", "fetch", "job", "details", "from", "this", "link", ".",
      "The", "page", "structure", "may", "have", "changed", "or", "the", "job",
      "may", "not", "be", "publicly", "accessible", ".", "Please", "verify",
      "the", "URL", "or", "enter", "the", "details", "manually", ".">>

MsgFailedToScrape == <<"Failed", "to", "scrape", "LinkedIn", "job", ":">>

\* resumeGenerator and cohere
MsgMissingParameters == <<"Missing", "required", "parameters">>

MsgNotAutoFixed ==
    <<"Generated", "resume", "contains", "invalid", "LaTeX", "that", "could",
      "not", "be", "automatically", "fixed">>

MsgEmptyResponse ==
    <<"Invalid", "or", "empty", "response", "from", "Cohere", "API">>

MsgNoTextContent ==
    <<"No", "text", "content", "found", "in", "Cohere", "API", "response">>

\* an error of the client of the generative service (the request itself failed)
MsgServiceDown == <<"fetch", "failed">>

\* the routes
MsgNotFixed ==
    <<"Generated", "resume", "contains", "invalid", "LaTeX", "that", "could",
      "not", "be", "fixed">>

\* an error of the persistence layer
MsgSaveFailed == <<"connection", "closed">>

----------------------------------------------------------------------------
(* resumeGenerator *)

\* the backquote character (written by name: the character itself cannot
\* appear in a string of this language)
Backquote == "BACKQUOTE"

Fence == <<Backquote, Backquote, Backquote>>

FenceLatex == Fence \o <<"l", "a", "t", "e", "x">>

\* s.replace(/^FENCE(?:latex)?\n/, "")
StripOpeningFence(s) ==
    IF StartsWith(s, FenceLatex \o <<"\n">>) THEN SubSeq(s, Len(FenceLatex) + 2, Len(s))
    ELSE IF StartsWith(s, Fence \o <<"\n">>) THEN SubSeq(s, Len(Fence) + 2, Len(s))
    ELSE s

\* s.replace(/\nFENCE$/, "")
StripClosingFence(s) ==
    IF MatchAt(s, Len(s) - Len(Fence), <<"\n">> \o Fence)
    THEN SubSeq(s, 1, Len(s) - Len(Fence) - 1)
    ELSE s

StripFences(s) ==
    IF StartsWith(s, FenceLatex) \/ StartsWith(s, Fence)
    THEN StripClosingFence(StripOpeningFence(s))
    ELSE s

\* what the generative service answers to one chat request
SvcError == [kind |-> "error", text |-> <<>>]

SvcEmpty == [kind |-> "empty", text |-> <<>>]

SvcNoText == [kind |-> "notext", text |-> <<>>]

SvcText(t) == [kind |-> "text", text |-> t]

Returned(v) == [ok |-> TRUE, value |-> v, error |-> <<>>]

Threw(msg) == [ok |-> FALSE, value |-> <<>>, error |-> msg]

cohereGenerateLatex(svc) ==
    IF svc.kind = "error" THEN Threw(MsgServiceDown)
    ELSE IF svc.kind = "empty" THEN Threw(MsgEmptyResponse)
    ELSE IF svc.kind = "notext" \/ Len(svc.text) = 0 THEN Threw(MsgNoTextContent)
    ELSE Returned(svc.text)

\* the check of the parameters that precedes the call of the service
HasRequiredParameters(masterResume, jobTitle, jobDescription) ==
    Len(masterResume) > 0 /\ Len(jobTitle) > 0 /\ jobDescription.len > 0

\* generateCustomResume from the answer of the service on
generateCustomResume(svc) ==
    LET generated == cohereGenerateLatex(svc)
    IN  IF ~generated.ok THEN generated
        ELSE LET customized == StripFences(Trim(generated.value))
             IN  IF quickValidateLatex(customized) THEN Returned(customized)
                 ELSE LET fixedResume == balanceLatexTags(customized)
                      IN  IF quickValidateLatex(fixedResume)
                          THEN Returned(fixedResume)
                          ELSE Threw(MsgNotAutoFixed)

\* lines 69-85 of POST /api/resumes, 336-360 of generate-from-linkedin
ValidateGenerated(customized) ==
    IF quickValidateLatex(customized) THEN Returned(customized)
    ELSE LET fixedResume == balanceLatexTags(customized)
         IN  IF quickValidateLatex(fixedResume)
             THEN Returned(fixedResume)
             ELSE Threw(MsgNotFixed)

----------------------------------------------------------------------------
(* linkedinScraper *)

\* if (!jobData.jobDescription || jobData.jobDescription.length < 50)
MinDescriptionLength == 50

\* A text of the page is known by its length and by the number of its
\* characters that the clean-up of the description removes ("Show more" and
\* "Show less", blank lines, white space around lines, runs of spaces).
Text(len, junk) == [len |-> len, junk |-> junk]

NoText == Text(0, 0)

\* lines 517-532 and 592-601
CleanDescription(d) == Text(d.len - d.junk, 0)

\* the texts a page can hold where the description is looked for
DescriptionTexts ==
    {Text(0, 0), Text(20, 0), Text(49, 0), Text(50, 0), Text(70, 0),
     Text(60, 25), Text(80, 25)}

TitleTexts == {<<>>, <<"Engineer">>}

CompanyTexts == {<<>>, <<"Acme">>}

EmptyJob == [jobTitle |-> <<>>, companyName |-> <<>>, jobDescription |-> NoText]

IsShort(d) == d.len = 0 \/ d.len < MinDescriptionLength

\* the catch block: the message thrown in place of the one caught
ScraperCatch(msg) ==
    IF \/ Includes(msg, <<"Chrome/Chromium", "executable", "not", "found">>)
       \/ Includes(msg, <<"executablePath">>)
       \/ Includes(msg, <<"channel">>)
    THEN MsgChromeNotFoundUser
    ELSE IF Includes(msg, <<"Invalid", "LinkedIn", "job", "URL">>)
    THEN MsgInvalidUrlUser
    ELSE IF Includes(msg, <<"timeout">>) \/ Includes(msg, <<"Navigation", "timeout">>)
    THEN MsgTimeoutUser
    ELSE IF Includes(msg, <<"net::ERR">>)
    THEN MsgNetworkUser
    ELSE IF Includes(msg, <<"Unable", "to", "locate", "job", "description">>)
    THEN MsgNoDescriptionUser
    ELSE IF Includes(msg, <<"Could", "not", "extract", "job", "information">>)
    THEN MsgCouldNotExtractUser
    ELSE MsgFailedToScrape \o msg

\* URLs: [type, value]; value is the token sequence of a string
UrlString(tokens) == [type |-> "string", value |-> tokens]

NoUrl == [type |-> "undefined", value |-> <<>>]

JobUrl == UrlString(<<" ", "https://", "www.", "linkedin.com", "/jobs", "/view/", "1", " ">>)

UrlInputs ==
    { NoUrl,
      [type |-> "number", value |-> <<>>],
      UrlString(<<>>),
      JobUrl,
      UrlString(<<"https://", "evil.example", "/x">>),
      UrlString(<<"www.", "linkedin.com", "/jobs", "/view/", "1">>) }

\* as HasJobShape, accepting every URL
HasJobShapeMutant(tokens) == TRUE

\* url.includes("linkedin.com/jobs")
HasJobShape(tokens) == Includes(tokens, <<"linkedin.com", "/jobs">>)

\* new URL(s) does not throw
UrlParses(tokens) == Len(tokens) > 0 /\ tokens[1] \in {"https://", "http://"}

----------------------------------------------------------------------------
(* The routes: data *)

Routes ==
    {"POST_resumes", "POST_linkedin", "PUT_resume", "PUT_users", "POST_upload",
     "POST_scrape", "CALL_scrape"}

\* as MaxAttempts, with the smaller budget in both routes
MaxAttemptsMutant(r) == 2

\* const maxAttempts = 3 (POST /api/resumes), 2 (generate-from-linkedin)
MaxAttempts(r) == IF r = "POST_resumes" THEN 3 ELSE 2

\* the generative service is scripted for as many calls as a request can make
ScriptLen == 3

\* \begin{a}\x{1}\end{a}
ValidMaster ==
    BeginKw \o <<"a", "}", "\\", "x", "{", "1", "}">> \o EndKw \o <<"a", "}">>

\* \x{
InvalidMaster == <<"\\", "x", "{">>

MasterDocs == {ValidMaster, InvalidMaster, <<>>}

\* a valid document in a code fence, surrounded by white space
AnswerFenced ==
    <<" ">> \o FenceLatex \o <<"\n", "\\", "x", "{", "1", "}", "\n">> \o Fence \o <<"\n">>

\* \begin{a}{\x   (one brace and one environment left open)
AnswerRepairable == BeginKw \o <<"a", "}", "{", "\\", "x">>

\* }\x{   (a closing brace before its opening brace)
AnswerUnrepairable == <<"}", "\\", "x", "{">>

GenAnswers ==
    {SvcError, SvcNoText, SvcText(AnswerFenced), SvcText(AnswerRepairable),
     SvcText(AnswerUnrepairable)}

Scripts == [1..ScriptLen -> GenAnswers]

\* the documents a PUT request carries:  " \x ",  "}",  ""
PutDocs == {<<" ", "\\", "x", " ">>, <<"}">>, <<>>}

\* the masterResume of the body of PUT /api/users
MasterString(d) == [type |-> "string", value |-> d]

NoMaster == [type |-> "undefined", value |-> <<>>]

\* [object Object]
ObjectObject ==
    <<"[", "o", "b", "j", "e", "c", "t", " ", "O", "b", "j", "e", "c", "t", "]">>

\* the file of the form data of POST /api/extension/resume/upload
FileOf(type, text) == [present |-> TRUE, type |-> type, text |-> text]

NoFile == [present |-> FALSE, type |-> "", text |-> <<>>]

UploadFiles ==
    {FileOf(t, d) : t \in {"text/plain", "application/x-tex"},
                    d \in {ValidMaster, <<>>, ObjectObject}}
        \cup {NoFile}

ReqDefault ==
    [auth |-> "ok", userFound |-> TRUE, jobTitle |-> <<"Engineer">>,
     jobDescription |-> Text(70, 0), url |-> NoUrl, resume |-> <<>>,
     resumeId |-> 0, masterResume |-> NoMaster, file |-> NoFile]

Requests(r) ==
    IF r = "POST_resumes"
    THEN {[ReqDefault EXCEPT !.auth = a, !.userFound = u, !.jobTitle = t] :
             a \in {"none", "ok"}, u \in BOOLEAN, t \in TitleTexts}
    ELSE IF r = "POST_linkedin"
    THEN {[ReqDefault EXCEPT !.auth = a, !.userFound = u, !.url = l] :
             a \in {"none", "invalid", "ok"}, u \in BOOLEAN, l \in UrlInputs}
    ELSE IF r = "POST_scrape"
    THEN {[ReqDefault EXCEPT !.url = l] : l \in UrlInputs}
    ELSE IF r = "CALL_scrape"
    THEN {[ReqDefault EXCEPT !.url = l] : l \in {u \in UrlInputs : u.type = "string"}}
    ELSE IF r = "PUT_users"
    THEN {[ReqDefault EXCEPT !.auth = a, !.userFound = u, !.masterResume = m] :
             a \in {"none", "noemail", "ok"}, u \in BOOLEAN,
             m \in {MasterString(d) : d \in MasterDocs} \cup {NoMaster}}
    ELSE IF r = "POST_upload"
    THEN {[ReqDefault EXCEPT !.auth = a, !.userFound = u, !.file = f] :
             a \in {"none", "invalid", "noemail", "ok"}, u \in BOOLEAN,
             f \in UploadFiles}
    ELSE {[ReqDefault EXCEPT !.auth = a, !.userFound = u, !.jobTitle = t,
                             !.resume = d, !.resumeId = i] :
             a \in {"none", "ok"}, u \in BOOLEAN, t \in TitleTexts,
             d \in PutDocs, i \in 0..MaxResumes}

\* responses
NoResponse == [body |-> "none", status |-> 0, errorType |-> "", resumeId |-> 0]

\* NextResponse.json({error, errorType}, {status}); errorType "" when absent
Json(status, errorType) ==
    [body |-> "json", status |-> status, errorType |-> errorType, resumeId |-> 0]

PdfResponse == [body |-> "pdf", status |-> 200, errorType |-> "", resumeId |-> 0]

\* the schema of the stored resume: trim: true
StoreDoc(d) == Trim(d)

\* the schema of masterResume: trim: true
StoreMaster(d) == Trim(d)

\* the characters of the uploaded files, in the order of their codes
Printable ==
    << " ", "!", "\"", "#", "$", "%", "&", "'", "(", ")", "*", "+", ",", "-", ".", "/",
       "0", "1", "2", "3", "4", "5", "6", "7", "8", "9", ":", ";", "<", "=", ">", "?",
       "@", "A", "B", "C", "D", "E", "F", "G", "H", "I", "J", "K", "L", "M", "N", "O",
       "P", "Q", "R", "S", "T", "U", "V", "W", "X", "Y", "Z", "[", "\\", "]", "^", "_",
       Backquote, "a", "b", "c", "d", "e", "f", "g", "h", "i", "j", "k", "l", "m", "n", "o",
       "p", "q", "r", "s", "t", "u", "v", "w", "x", "y", "z", "{", "|", "}", "~" >>

\* the byte of a character
CharCode(c) ==
    IF c = "\n" THEN 10
    ELSE 31 + (CHOOSE k \in 1..Len(Printable) : Printable[k] = c)

Base64Alphabet ==
    << "A", "B", "C", "D", "E", "F", "G", "H", "I", "J", "K", "L", "M", "N", "O", "P",
       "Q", "R", "S", "T", "U", "V", "W", "X", "Y", "Z", "a", "b", "c", "d", "e", "f",
       "g", "h", "i", "j", "k", "l", "m", "n", "o", "p", "q", "r", "s", "t", "u", "v",
       "w", "x", "y", "z", "0", "1", "2", "3", "4", "5", "6", "7", "8", "9", "+", "/" >>

\* Buffer.from(arrayBuffer).toString("base64")
RECURSIVE Base64(_)
Base64(d) ==
    IF Len(d) = 0 THEN <<>>
    ELSE LET b1 == CharCode(d[1])
             b2 == IF Len(d) >= 2 THEN CharCode(d[2]) ELSE 0
             b3 == IF Len(d) >= 3 THEN CharCode(d[3]) ELSE 0
             n  == b1 * 65536 + b2 * 256 + b3
         IN  << Base64Alphabet[(n \div 262144) + 1],
                Base64Alphabet[((n \div 4096) % 64) + 1],
                IF Len(d) >= 2 THEN Base64Alphabet[((n \div 64) % 64) + 1] ELSE "=",
                IF Len(d) >= 3 THEN Base64Alphabet[(n % 64) + 1] ELSE "=" >>
             \o Base64(SubSeq(d, 4, Len(d)))

\* /^[a-zA-Z0-9\s{}[\]":,.-]+$/.test(fileText.substring(0, 100))
LooksLikeText(fileText) ==
    LET head == SubSeq(fileText, 1, IF Len(fileText) < 100 THEN Len(fileText) ELSE 100)
    IN  /\ Len(head) > 0
        /\ \A k \in 1..Len(head) :
               head[k] \in Letters \cup Digits \cup Whitespace
                              \cup {"{", "}", "[", "]", "\"", ":", ",", ".", "-"}

\* isTextContent
IsTextContent(file) ==
    \/ file.type = "text/plain"
    \/ StartsWith(file.text, <<"{">>)
    \/ StartsWith(file.text, <<"[">>)
    \/ LooksLikeText(file.text)

\* dataToStore
DataToStore(file) == IF IsTextContent(file) THEN file.text ELSE Base64(file.text)

\* the outer catch of POST /api/resumes
ResumesCatch(msg) ==
    IF Includes(msg, <<"Master", "resume", "contains", "invalid", "LaTeX">>)
    THEN Json(400, "invalid_master_resume")
    ELSE IF Includes(msg, <<"Generated", "resume", "contains", "invalid", "LaTeX">>)
    THEN Json(500, "invalid_generated_resume")
    ELSE IF Includes(msg, <<"Cohere", "API">>)
    THEN Json(503, "ai_service_error")
    ELSE IF Includes(msg, <<"Unauthorized">>) \/ Includes(msg, <<"User", "not", "found">>)
    THEN Json(401, "auth_error")
    ELSE Json(500, "server_error")

\* the outer catch of generate-from-linkedin
LinkedinCatch(msg) ==
    IF Includes(msg, <<"timeout">>) \/ Includes(msg, <<"Navigation", "timeout">>)
    THEN Json(504, "timeout")
    ELSE IF Includes(msg, <<"net::ERR">>) \/ Includes(msg, <<"Network", "error">>)
    THEN Json(503, "network_error")
    ELSE IF \/ Includes(msg, <<"Invalid", "LinkedIn", "job", "URL">>)
            \/ Includes(msg, <<"Invalid", "URL">>)
    THEN Json(400, "invalid_url")
    ELSE IF \/ Includes(msg, <<"Unable", "to", "locate", "job", "description">>)
            \/ Includes(msg, <<"description">>)
    THEN Json(422, "description_missing")
    ELSE IF \/ Includes(msg, <<"Could", "not", "extract">>)
            \/ Includes(msg, <<"fetch", "job", "details">>)
    THEN Json(422, "extraction_failed")
    ELSE IF Includes(msg, <<"PDF", "generation">>)
    THEN Json(500, "pdf_generation_failed")
    ELSE IF Includes(msg, <<"LaTeX">>) \/ Includes(msg, <<"resume">>)
    THEN Json(500, "resume_generation_failed")
    ELSE Json(500, "unknown_error")

\* the catch of the scrape route (pdf/generate/route.ts, lines 349-452)
ScrapeRouteCatch(msg) ==
    IF Includes(msg, <<"timeout">>) \/ Includes(msg, <<"Navigation", "timeout">>)
    THEN Json(504, "timeout")
    ELSE IF Includes(msg, <<"net::ERR">>) \/ Includes(msg, <<"Network", "error">>)
    THEN Json(503, "network_error")
    ELSE IF \/ Includes(msg, <<"Invalid", "LinkedIn", "job", "URL">>)
            \/ Includes(msg, <<"Invalid", "URL">>)
    THEN Json(400, "invalid_url")
    ELSE IF \/ Includes(msg, <<"Unable", "to", "locate", "job", "description">>)
            \/ Includes(msg, <<"description">>)
    THEN Json(422, "description_missing")
    ELSE IF \/ Includes(msg, <<"Could", "not", "extract">>)
            \/ Includes(msg, <<"fetch", "job", "details">>)
    THEN Json(422, "extraction_failed")
    ELSE Json(500, "unknown_error")

\* the outcome of a call of scrapeLinkedInJob by another caller
CallResult(outcome) == [body |-> outcome, status |-> 0, errorType |-> "", resumeId |-> 0]

\* the response of the retry loop when the last attempt has failed
ExhaustedResponse(r) ==
    IF r = "POST_resumes" THEN Json(500, "invalid_generated_resume")
    ELSE Json(500, "resume_generation_failed")

----------------------------------------------------------------------------
(* The routes: actions *)

\* the locals of a handler before it runs
FreshLocals ==
    /\ script' = <<>>
    /\ attempts' = 0
    /\ calls' = 0
    /\ inFlight' = 0
    /\ validatedAt' = 0
    /\ customizedResume' = <<>>
    /\ genError' = <<>>
    /\ jobData' = EmptyJob
    /\ browser' = "null"
    /\ launches' = 0
    /\ closes' = 0
    /\ thrown' = <<>>
    /\ scrapeResult' = "none"
    /\ exitRoute' = "none"
    /\ response' = NoResponse

\* the handler ends with the response r
Respond(r) ==
    /\ response' = r
    /\ pc' = "done"

\* a request arrives
NewRequest ==
    /\ pc = "idle"
    /\ \E r \in Routes :
         /\ r \in {"POST_resumes", "POST_linkedin"} => Len(resumes) < MaxResumes
         /\ route' = r
         /\ req' \in Requests(r)
    /\ pc' = "start"
    /\ FreshLocals
    /\ UNCHANGED <<latexVars, urlVars, extVars>>
    /\ UNCHANGED <<master, resumes>>

\* the response is sent; nothing of the request is kept but the user record
EndRequest ==
    /\ pc = "done"
    /\ pc' = "idle"
    /\ route' = "POST_resumes"
    /\ req' = ReqDefault
    /\ FreshLocals
    /\ UNCHANGED <<latexVars, urlVars, extVars>>
    /\ UNCHANGED <<master, resumes>>

\* POST /api/resumes, lines 12-53
ResumesStart ==
    /\ pc = "start"
    /\ route = "POST_resumes"
    /\ IF req.auth # "ok" THEN Respond(Json(401, "")) /\ UNCHANGED script
       ELSE IF ~req.userFound THEN Respond(Json(404, "")) /\ UNCHANGED script
       ELSE IF Len(req.jobTitle) = 0 \/ req.jobDescription.len = 0
       THEN Respond(Json(400, "")) /\ UNCHANGED script
       ELSE IF Len(master) = 0 THEN Respond(Json(404, "")) /\ UNCHANGED script
       ELSE IF ~quickValidateLatex(master) THEN Respond(Json(400, "")) /\ UNCHANGED script
       ELSE /\ pc' = "t_loop"
            /\ script' \in Scripts
            /\ UNCHANGED response
    /\ UNCHANGED <<latexVars, urlVars, extVars>>
    /\ UNCHANGED <<master, resumes, route, req, attempts, calls, inFlight,
                   validatedAt, customizedResume, genError, jobData, browser,
                   launches, closes, thrown, scrapeResult, exitRoute>>

\* the catch of the retry loop, for the attempt numbered n
AttemptFailed(n, msg) ==
    /\ genError' = msg
    /\ IF n >= MaxAttempts(route)
       THEN Respond(ExhaustedResponse(route))
       ELSE pc' = "t_loop" /\ UNCHANGED response

\* while (attempts < maxAttempts) { attempts++; ... generateCustomResume(...)
\* up to the request sent to the generative service
TailorIssue ==
    /\ pc = "t_loop"
    /\ attempts < MaxAttempts(route)
    /\ attempts' = attempts + 1
    /\ IF HasRequiredParameters(master,
                                IF route = "POST_resumes" THEN req.jobTitle
                                                          ELSE jobData.jobTitle,
                                IF route = "POST_resumes" THEN req.jobDescription
                                                          ELSE jobData.jobDescription)
       THEN /\ calls' = calls + 1
            /\ inFlight' = inFlight + 1
            /\ pc' = "t_await"
            /\ UNCHANGED <<genError, response>>
       ELSE /\ AttemptFailed(attempts + 1, MsgMissingParameters)
            /\ UNCHANGED <<calls, inFlight>>
    /\ UNCHANGED <<latexVars, urlVars, extVars>>
    /\ UNCHANGED <<master, resumes, route, req, script, validatedAt,
                   customizedResume, jobData, browser, launches, closes,
                   thrown, scrapeResult, exitRoute>>

\* as TailorComplete, without the break after a validated attempt
TailorCompleteMutant ==
    /\ pc = "t_await"
    /\ inFlight' = inFlight - 1
    /\ LET generated == generateCustomResume(script[calls])
       IN  IF ~generated.ok
           THEN /\ AttemptFailed(attempts, generated.error)
                /\ UNCHANGED <<customizedResume, validatedAt>>
           ELSE LET checked == ValidateGenerated(generated.value)
                IN  IF checked.ok
                    THEN /\ customizedResume' = checked.value
                         /\ validatedAt' = calls
                         /\ pc' = IF attempts < MaxAttempts(route) THEN "t_loop" ELSE "save"
                         /\ UNCHANGED <<genError, response>>
                    ELSE /\ customizedResume' = generated.value
                         /\ AttemptFailed(attempts, checked.error)
                         /\ UNCHANGED validatedAt
    /\ UNCHANGED <<latexVars, urlVars, extVars>>
    /\ UNCHANGED <<master, resumes, route, req, script, attempts, calls,
                   jobData, browser, launches, closes, thrown, scrapeResult,
                   exitRoute>>

\* the generative service has answered: the rest of generateCustomResume and
\* of the body of the loop
TailorComplete ==
    /\ pc = "t_await"
    /\ inFlight' = inFlight - 1
    /\ LET generated == generateCustomResume(script[calls])
       IN  IF ~generated.ok
           THEN /\ AttemptFailed(attempts, generated.error)
                /\ UNCHANGED <<customizedResume, validatedAt>>
           ELSE LET checked == ValidateGenerated(generated.value)
                IN  IF checked.ok
                    THEN /\ customizedResume' = checked.value
                         /\ validatedAt' = calls
                         /\ pc' = "save"
                         /\ UNCHANGED <<genError, response>>
                    ELSE /\ customizedResume' = generated.value
                         /\ AttemptFailed(attempts, checked.error)
                         /\ UNCHANGED validatedAt
    /\ UNCHANGED <<latexVars, urlVars, extVars>>
    /\ UNCHANGED <<master, resumes, route, req, script, attempts, calls,
                   jobData, browser, launches, closes, thrown, scrapeResult,
                   exitRoute>>

\* user.resumes.push(newResume); await user.save(); and what follows it
SaveResume ==
    /\ pc = "save"
    /\ \E dbOk \in BOOLEAN :
         LET stored == StoreDoc(customizedResume)
             saved  == dbOk /\ Len(stored) > 0
         IN  /\ resumes' = IF saved THEN Append(resumes, stored) ELSE resumes
             /\ IF route = "POST_resumes"
                THEN IF saved THEN Respond(Json(200, ""))
                              ELSE Respond(ResumesCatch(MsgSaveFailed))
                ELSE IF saved THEN pc' = "pdf" /\ UNCHANGED response
                              ELSE Respond(Json(500, ""))
    /\ UNCHANGED <<latexVars, urlVars, extVars>>
    /\ UNCHANGED <<master, route, req, script, attempts, calls, inFlight,
                   validatedAt, customizedResume, genError, jobData, browser,
                   launches, closes, thrown, scrapeResult, exitRoute>>

\* as RenderPdf, the error response not naming the saved record
RenderPdfMutant ==
    /\ pc = "pdf"
    /\ \E pdfOk \in BOOLEAN :
         IF pdfOk THEN Respond(PdfResponse)
         ELSE Respond(Json(500, "pdf_generation_failed"))
    /\ UNCHANGED <<latexVars, urlVars, extVars>>
    /\ UNCHANGED <<master, resumes, route, req, script, attempts, calls,
                   inFlight, validatedAt, customizedResume, genError, jobData,
                   browser, launches, closes, thrown, scrapeResult, exitRoute>>

\* generate-from-linkedin, lines 414-472
RenderPdf ==
    /\ pc = "pdf"
    /\ \E pdfOk \in BOOLEAN :
         IF pdfOk THEN Respond(PdfResponse)
         ELSE Respond([Json(500, "pdf_generation_failed") EXCEPT
                           !.resumeId = Len(resumes)])
    /\ UNCHANGED <<latexVars, urlVars, extVars>>
    /\ UNCHANGED <<master, resumes, route, req, script, attempts, calls,
                   inFlight, validatedAt, customizedResume, genError, jobData,
                   browser, launches, closes, thrown, scrapeResult, exitRoute>>

\* as PutResume, without the validation of the document
PutResumeMutant ==
    /\ pc = "start"
    /\ route = "PUT_resume"
    /\ IF req.auth # "ok" THEN Respond(Json(401, "")) /\ UNCHANGED resumes
       ELSE IF req.resumeId = 0 THEN Respond(Json(400, "")) /\ UNCHANGED resumes
       ELSE IF \/ Len(req.jobTitle) = 0 \/ req.jobDescription.len = 0
               \/ Len(req.resume) = 0
       THEN Respond(Json(400, "")) /\ UNCHANGED resumes
       ELSE IF ~req.userFound THEN Respond(Json(404, "")) /\ UNCHANGED resumes
       ELSE IF req.resumeId > Len(resumes)
       THEN Respond(Json(404, "")) /\ UNCHANGED resumes
       ELSE \E dbOk \in BOOLEAN :
              LET stored == StoreDoc(req.resume)
                  saved  == dbOk /\ Len(stored) > 0
              IN  IF saved
                  THEN /\ resumes' = [resumes EXCEPT ![req.resumeId] = stored]
                       /\ Respond(Json(200, ""))
                  ELSE /\ Respond(Json(500, ""))
                       /\ UNCHANGED resumes
    /\ UNCHANGED <<latexVars, urlVars, extVars>>
    /\ UNCHANGED <<master, route, req, script, attempts, calls, inFlight,
                   validatedAt, customizedResume, genError, jobData, browser,
                   launches, closes, thrown, scrapeResult, exitRoute>>

\* PUT /api/resumes/[id]
PutResume ==
    /\ pc = "start"
    /\ route = "PUT_resume"
    /\ IF req.auth # "ok" THEN Respond(Json(401, "")) /\ UNCHANGED resumes
       ELSE IF req.resumeId = 0 THEN Respond(Json(400, "")) /\ UNCHANGED resumes
       ELSE IF \/ Len(req.jobTitle) = 0 \/ req.jobDescription.len = 0
               \/ Len(req.resume) = 0
       THEN Respond(Json(400, "")) /\ UNCHANGED resumes
       ELSE IF ~quickValidateLatex(req.resume)
       THEN Respond(Json(400, "")) /\ UNCHANGED resumes
       ELSE IF ~req.userFound THEN Respond(Json(404, "")) /\ UNCHANGED resumes
       ELSE IF req.resumeId > Len(resumes)
       THEN Respond(Json(404, "")) /\ UNCHANGED resumes
       ELSE \E dbOk \in BOOLEAN :
              LET stored == StoreDoc(req.resume)
                  saved  == dbOk /\ Len(stored) > 0
              IN  IF saved
                  THEN /\ resumes' = [resumes EXCEPT ![req.resumeId] = stored]
                       /\ Respond(Json(200, ""))
                  ELSE /\ Respond(Json(500, ""))
                       /\ UNCHANGED resumes
    /\ UNCHANGED <<latexVars, urlVars, extVars>>
    /\ UNCHANGED <<master, route, req, script, attempts, calls, inFlight,
                   validatedAt, customizedResume, genError, jobData, browser,
                   launches, closes, thrown, scrapeResult, exitRoute>>

\* PUT /api/users
PutUser ==
    /\ pc = "start"
    /\ route = "PUT_users"
    /\ IF req.auth = "none" THEN Respond(Json(401, "")) /\ UNCHANGED master
       ELSE IF req.auth = "noemail" THEN Respond(Json(400, "")) /\ UNCHANGED master
       ELSE IF ~req.userFound THEN Respond(Json(404, "")) /\ UNCHANGED master
       ELSE \E dbOk \in BOOLEAN :
              IF dbOk
              THEN /\ master' = IF req.masterResume.type # "undefined"
                                 THEN StoreMaster(req.masterResume.value)
                                 ELSE master
                   /\ Respond(Json(200, ""))
              ELSE /\ Respond(Json(500, ""))
                   /\ UNCHANGED master
    /\ UNCHANGED <<latexVars, urlVars, extVars>>
    /\ UNCHANGED <<resumes, route, req, script, attempts, calls, inFlight,
                   validatedAt, customizedResume, genError, jobData, browser,
                   launches, closes, thrown, scrapeResult, exitRoute>>

\* POST /api/extension/resume/upload
UploadResume ==
    /\ pc = "start"
    /\ route = "POST_upload"
    /\ IF req.auth \in {"none", "invalid"} THEN Respond(Json(401, "")) /\ UNCHANGED master
       ELSE IF req.auth = "noemail" THEN Respond(Json(400, "")) /\ UNCHANGED master
       ELSE IF ~req.userFound THEN Respond(Json(404, "")) /\ UNCHANGED master
       ELSE IF ~req.file.present THEN Respond(Json(400, "")) /\ UNCHANGED master
       ELSE IF Includes(req.file.text, ObjectObject)
       THEN Respond(Json(400, "")) /\ UNCHANGED master
       ELSE \E dbOk \in BOOLEAN :
              IF dbOk
              THEN /\ master' = StoreMaster(DataToStore(req.file))
                   /\ Respond(Json(200, ""))
              ELSE /\ Respond(Json(500, ""))
                   /\ UNCHANGED master
    /\ UNCHANGED <<latexVars, urlVars, extVars>>
    /\ UNCHANGED <<resumes, route, req, script, attempts, calls, inFlight,
                   validatedAt, customizedResume, genError, jobData, browser,
                   launches, closes, thrown, scrapeResult, exitRoute>>

\* generate-from-linkedin, lines 22-254
LinkedinStart ==
    /\ pc = "start"
    /\ route = "POST_linkedin"
    /\ IF req.auth # "ok" THEN Respond(Json(401, ""))
       ELSE IF ~req.userFound THEN Respond(Json(404, ""))
       ELSE IF Len(master) = 0 THEN Respond(Json(404, "master_resume_missing"))
       ELSE IF ~quickValidateLatex(master)
       THEN Respond(Json(400, "invalid_master_resume"))
       ELSE IF req.url.type # "string" \/ Len(req.url.value) = 0
       THEN Respond(Json(400, "invalid_input"))
       ELSE IF ~HasJobShape(Trim(req.url.value))
       THEN Respond(Json(400, "invalid_url"))
       ELSE IF ~UrlParses(Trim(req.url.value))
       THEN Respond(Json(400, "invalid_url_format"))
       ELSE pc' = "s_enter" /\ UNCHANGED response
    /\ UNCHANGED <<latexVars, urlVars, extVars>>
    /\ UNCHANGED <<master, resumes, route, req, script, attempts, calls,
                   inFlight, validatedAt, customizedResume, genError, jobData,
                   browser, launches, closes, thrown, scrapeResult, exitRoute>>

\* the scrape route (pdf/generate/route.ts), lines 275-316
ScrapeRouteStart ==
    /\ pc = "start"
    /\ route = "POST_scrape"
    /\ IF req.url.type # "string" \/ Len(req.url.value) = 0
       THEN Respond(Json(400, "invalid_input"))
       ELSE IF ~HasJobShape(Trim(req.url.value))
       THEN Respond(Json(400, "invalid_url"))
       ELSE IF ~UrlParses(Trim(req.url.value))
       THEN Respond(Json(400, "invalid_url_format"))
       ELSE pc' = "s_enter" /\ UNCHANGED response
    /\ UNCHANGED <<latexVars, urlVars, extVars>>
    /\ UNCHANGED <<master, resumes, route, req, script, attempts, calls,
                   inFlight, validatedAt, customizedResume, genError, jobData,
                   browser, launches, closes, thrown, scrapeResult, exitRoute>>

\* scrapeLinkedInJob(url) called with any string
ScrapeCall ==
    /\ pc = "start"
    /\ route = "CALL_scrape"
    /\ pc' = "s_enter"
    /\ UNCHANGED <<latexVars, urlVars, extVars>>
    /\ UNCHANGED <<master, resumes, route, req, script, attempts, calls,
                   inFlight, validatedAt, customizedResume, genError, jobData,
                   browser, launches, closes, thrown, scrapeResult, exitRoute,
                   response>>

----------------------------------------------------------------------------
(* scrapeLinkedInJob, called by the routes with the trimmed URL *)

\* the url argument of the call
ScrapeUrl == IF route = "CALL_scrape" THEN req.url.value ELSE Trim(req.url.value)

\* an error leaves the try block at the place named by via
ScrapeThrow(msg, via) ==
    /\ thrown' = msg
    /\ exitRoute' = via
    /\ pc' = "s_catch"

\* lines 90-135: the check of the URL and the launch of the browser
ScrapeEnter ==
    /\ pc = "s_enter"
    /\ LET url == ScrapeUrl
       IN  IF Len(url) = 0 \/ ~HasJobShape(url)
           THEN /\ thrown' = MsgInvalidUrl
                /\ exitRoute' = "invalid_url"
                /\ scrapeResult' = "threw"
                /\ pc' = "s_exit"
                /\ UNCHANGED <<browser, launches>>
           ELSE \E isServerless \in BOOLEAN, chromeFound \in BOOLEAN, launchOk \in BOOLEAN :
                  IF ~isServerless /\ ~chromeFound
                  THEN /\ ScrapeThrow(MsgChromeNotFound, "launch")
                       /\ UNCHANGED <<browser, launches, scrapeResult>>
                  ELSE IF ~launchOk
                  THEN /\ ScrapeThrow(MsgLaunchFailed, "launch")
                       /\ UNCHANGED <<browser, launches, scrapeResult>>
                  ELSE /\ browser' = "open"
                       /\ launches' = launches + 1
                       /\ pc' = "s_page"
                       /\ UNCHANGED <<thrown, exitRoute, scrapeResult>>
    /\ UNCHANGED <<latexVars, urlVars, extVars>>
    /\ UNCHANGED <<master, resumes, route, req, script, attempts, calls,
                   inFlight, validatedAt, customizedResume, genError, jobData,
                   closes, response>>

\* lines 137-323: the page, the navigation, the modals and the waits
ScrapeNavigate ==
    /\ pc = "s_page"
    /\ \E outcome \in {<<>>, MsgNavigationTimeout, MsgNetErr, MsgTargetClosed} :
         IF outcome = <<>>
         THEN pc' = "s_extract" /\ UNCHANGED <<thrown, exitRoute>>
         ELSE ScrapeThrow(outcome, "navigate")
    /\ UNCHANGED <<latexVars, urlVars, extVars>>
    /\ UNCHANGED <<master, resumes, route, req, script, attempts, calls,
                   inFlight, validatedAt, customizedResume, genError, jobData,
                   browser, launches, closes, scrapeResult, response>>

\* lines 326-533: the fields read from the page and the clean-up of the
\* description
ScrapeExtract ==
    /\ pc = "s_extract"
    /\ \/ \E t \in TitleTexts, c \in CompanyTexts, d \in DescriptionTexts :
            LET cleaned == IF d.len > 0 THEN CleanDescription(d) ELSE d
            IN  /\ jobData' = [jobTitle |-> t, companyName |-> c,
                               jobDescription |-> cleaned]
                /\ pc' = IF IsShort(cleaned) THEN "s_retry" ELSE "s_gate"
                /\ UNCHANGED <<thrown, exitRoute>>
       \/ /\ ScrapeThrow(MsgTargetClosed, "evaluate")
          /\ UNCHANGED jobData
    /\ UNCHANGED <<latexVars, urlVars, extVars>>
    /\ UNCHANGED <<master, resumes, route, req, script, attempts, calls,
                   inFlight, validatedAt, customizedResume, genError, browser,
                   launches, closes, scrapeResult, response>>

\* lines 536-603: the description is read once more after scrolling
ScrapeRetry ==
    /\ pc = "s_retry"
    /\ \/ \E retryDescription \in DescriptionTexts :
            /\ jobData' =
                 IF /\ retryDescription.len > 0
                    /\ retryDescription.len > jobData.jobDescription.len
                 THEN [jobData EXCEPT !.jobDescription = CleanDescription(retryDescription)]
                 ELSE jobData
            /\ pc' = "s_gate"
            /\ UNCHANGED <<thrown, exitRoute>>
       \/ /\ ScrapeThrow(MsgTargetClosed, "evaluate")
          /\ UNCHANGED jobData
    /\ UNCHANGED <<latexVars, urlVars, extVars>>
    /\ UNCHANGED <<master, resumes, route, req, script, attempts, calls,
                   inFlight, validatedAt, customizedResume, genError, browser,
                   launches, closes, scrapeResult, response>>

\* as ScrapeGate, without the check of the length of the description
ScrapeGateMutant ==
    /\ pc = "s_gate"
    /\ IF Len(jobData.jobTitle) = 0 /\ Len(jobData.companyName) = 0
       THEN ScrapeThrow(MsgCouldNotExtract, "gate") /\ UNCHANGED jobData
       ELSE /\ jobData' =
                 [jobTitle |-> IF Len(jobData.jobTitle) = 0
                               THEN <<"Unknown", "Title">> ELSE jobData.jobTitle,
                  companyName |-> IF Len(jobData.companyName) = 0
                                  THEN <<"Unknown", "Company">> ELSE jobData.companyName,
                  jobDescription |-> jobData.jobDescription]
            /\ exitRoute' = "return"
            /\ pc' = "s_finally"
            /\ UNCHANGED thrown
    /\ UNCHANGED <<latexVars, urlVars, extVars>>
    /\ UNCHANGED <<master, resumes, route, req, script, attempts, calls,
                   inFlight, validatedAt, customizedResume, genError, browser,
                   launches, closes, scrapeResult, response>>

\* lines 605-619: the validation gate and the returned value
ScrapeGate ==
    /\ pc = "s_gate"
    /\ IF Len(jobData.jobTitle) = 0 /\ Len(jobData.companyName) = 0
       THEN ScrapeThrow(MsgCouldNotExtract, "gate") /\ UNCHANGED jobData
       ELSE IF IsShort(jobData.jobDescription)
       THEN ScrapeThrow(MsgNoDescription, "gate") /\ UNCHANGED jobData
       ELSE /\ jobData' =
                 [jobTitle |-> IF Len(jobData.jobTitle) = 0
                               THEN <<"Unknown", "Title">> ELSE jobData.jobTitle,
                  companyName |-> IF Len(jobData.companyName) = 0
                                  THEN <<"Unknown", "Company">> ELSE jobData.companyName,
                  jobDescription |-> jobData.jobDescription]
            /\ exitRoute' = "return"
            /\ pc' = "s_finally"
            /\ UNCHANGED thrown
    /\ UNCHANGED <<latexVars, urlVars, extVars>>
    /\ UNCHANGED <<master, resumes, route, req, script, attempts, calls,
                   inFlight, validatedAt, customizedResume, genError, browser,
                   launches, closes, scrapeResult, response>>

\* lines 620-648: the catch block
ScrapeCatch ==
    /\ pc = "s_catch"
    /\ thrown' = ScraperCatch(thrown)
    /\ pc' = "s_finally"
    /\ UNCHANGED <<latexVars, urlVars, extVars>>
    /\ UNCHANGED <<master, resumes, route, req, script, attempts, calls,
                   inFlight, validatedAt, customizedResume, genError, jobData,
                   browser, launches, closes, scrapeResult, exitRoute, response>>

\* as ScrapeFinally, closing the browser on the way of the return only
ScrapeFinallyMutant ==
    /\ pc = "s_finally"
    /\ IF browser = "open" /\ thrown = <<>>
       THEN browser' = "closed" /\ closes' = closes + 1
       ELSE UNCHANGED <<browser, closes>>
    /\ scrapeResult' = IF thrown = <<>> THEN "returned" ELSE "threw"
    /\ pc' = "s_exit"
    /\ UNCHANGED <<latexVars, urlVars, extVars>>
    /\ UNCHANGED <<master, resumes, route, req, script, attempts, calls,
                   inFlight, validatedAt, customizedResume, genError, jobData,
                   launches, thrown, exitRoute, response>>

\* lines 649-653: the finally block, after which the call returns or throws
ScrapeFinally ==
    /\ pc = "s_finally"
    /\ IF browser = "open"
       THEN browser' = "closed" /\ closes' = closes + 1
       ELSE UNCHANGED <<browser, closes>>
    /\ scrapeResult' = IF thrown = <<>> THEN "returned" ELSE "threw"
    /\ pc' = "s_exit"
    /\ UNCHANGED <<latexVars, urlVars, extVars>>
    /\ UNCHANGED <<master, resumes, route, req, script, attempts, calls,
                   inFlight, validatedAt, customizedResume, genError, jobData,
                   launches, thrown, exitRoute, response>>

\* generate-from-linkedin, lines 273-313 and the outer catch
LinkedinAfterScrape ==
    /\ pc = "s_exit"
    /\ route = "POST_linkedin"
    /\ IF scrapeResult = "threw"
       THEN Respond(LinkedinCatch(thrown)) /\ UNCHANGED script
       ELSE IF Len(jobData.jobTitle) = 0 \/ jobData.jobTitle = <<"Unknown", "Title">>
       THEN Respond(Json(422, "extraction_failed")) /\ UNCHANGED script
       ELSE IF IsShort(jobData.jobDescription)
       THEN Respond(Json(422, "description_missing")) /\ UNCHANGED script
       ELSE /\ pc' = "t_loop"
            /\ script' \in Scripts
            /\ UNCHANGED response
    /\ UNCHANGED <<latexVars, urlVars, extVars>>
    /\ UNCHANGED <<master, resumes, route, req, attempts, calls, inFlight,
                   validatedAt, customizedResume, genError, jobData, browser,
                   launches, closes, thrown, scrapeResult, exitRoute>>

\* the scrape route (pdf/generate/route.ts), lines 320-452
ScrapeRouteAfterScrape ==
    /\ pc = "s_exit"
    /\ route = "POST_scrape"
    /\ IF scrapeResult = "threw"
       THEN Respond(ScrapeRouteCatch(thrown))
       ELSE IF Len(jobData.jobTitle) = 0 \/ jobData.jobTitle = <<"Unknown", "Title">>
       THEN Respond(Json(422, "extraction_failed"))
       ELSE IF IsShort(jobData.jobDescription)
       THEN Respond(Json(422, "description_missing"))
       ELSE Respond(Json(200, ""))
    /\ UNCHANGED <<latexVars, urlVars, extVars>>
    /\ UNCHANGED <<master, resumes, route, req, script, attempts, calls, inFlight,
                   validatedAt, customizedResume, genError, jobData, browser,
                   launches, closes, thrown, scrapeResult, exitRoute>>

\* the call of scrapeLinkedInJob by another caller has returned or thrown
ScrapeCallEnd ==
    /\ pc = "s_exit"
    /\ route = "CALL_scrape"
    /\ Respond(CallResult(scrapeResult))
    /\ UNCHANGED <<latexVars, urlVars, extVars>>
    /\ UNCHANGED <<master, resumes, route, req, script, attempts, calls, inFlight,
                   validatedAt, customizedResume, genError, jobData, browser,
                   launches, closes, thrown, scrapeResult, exitRoute>>

----------------------------------------------------------------------------
(* The validator, applied to a document *)

Validate ==
    /\ latexPc = "input"
    /\ isValid' = quickValidateLatex(doc)
    /\ latexPc' = "validated"
    /\ UNCHANGED <<doc, repaired, repairedValid, repairedTwice>>
    /\ UNCHANGED <<urlVars, reqVars, extVars>>

\* the repairer, applied to the document
Repair ==
    /\ latexPc = "validated"
    /\ repaired' = balanceLatexTags(doc)
    /\ latexPc' = "repaired"
    /\ UNCHANGED <<doc, isValid, repairedValid, repairedTwice>>
    /\ UNCHANGED <<urlVars, reqVars, extVars>>

\* the validator, applied to the repaired document
ValidateRepaired ==
    /\ latexPc = "repaired"
    /\ repairedValid' = quickValidateLatex(repaired)
    /\ latexPc' = "revalidated"
    /\ UNCHANGED <<doc, isValid, repaired, repairedTwice>>
    /\ UNCHANGED <<urlVars, reqVars, extVars>>

\* the repairer, applied to the repaired document
RepairAgain ==
    /\ latexPc = "revalidated"
    /\ repairedTwice' = balanceLatexTags(repaired)
    /\ latexPc' = "rerepaired"
    /\ UNCHANGED <<doc, isValid, repaired, repairedValid>>
    /\ UNCHANGED <<urlVars, reqVars, extVars>>

----------------------------------------------------------------------------
(* PopupController: the canonical LinkedIn job URL *)

\* a candidate value: a string (a sequence of characters) or undefined
Candidate(chars) == [type |-> "string", value |-> chars]

NoCandidate == [type |-> "undefined", value |-> <<>>]

HexDigits ==
    <<"0", "1", "2", "3", "4", "5", "6", "7", "8", "9",
      "A", "B", "C", "D", "E", "F">>

HexDigitsLower ==
    <<"0", "1", "2", "3", "4", "5", "6", "7", "8", "9",
      "a", "b", "c", "d", "e", "f">>

\* the value of a hexadecimal digit, -1 for another character
HexValue(c) ==
    IF \E k \in 1..16 : HexDigits[k] = c
    THEN (CHOOSE k \in 1..16 : HexDigits[k] = c) - 1
    ELSE IF \E k \in 1..16 : HexDigitsLower[k] = c
    THEN (CHOOSE k \in 1..16 : HexDigitsLower[k] = c) - 1
    ELSE -1

\* the character code written by the escape at position i
PercentCode(s, i) == 16 * HexValue(s[i + 1]) + HexValue(s[i + 2])

\* the escape at position i is a percent sign followed by the two digits of
\* a printable character
ValidEscape(s, i) ==
    /\ i + 2 <= Len(s)
    /\ HexValue(s[i + 1]) >= 0
    /\ HexValue(s[i + 2]) >= 0
    /\ PercentCode(s, i) >= 32
    /\ PercentCode(s, i) <= 126

\* the decoding of the positions lo..hi of a string whose escapes are all
\* valid: an escape gives its character, its two digits give nothing, every
\* other character gives itself
RECURSIVE DecodeRange(_, _, _)
DecodeRange(s, lo, hi) ==
    IF lo > hi THEN <<>>
    ELSE IF lo = hi
    THEN IF (lo > 1 /\ s[lo - 1] = "%") \/ (lo > 2 /\ s[lo - 2] = "%") THEN <<>>
         ELSE IF s[lo] = "%" THEN <<Printable[PercentCode(s, lo) - 31]>>
         ELSE <<s[lo]>>
    ELSE LET mid == (lo + hi) \div 2
         IN  DecodeRange(s, lo, mid) \o DecodeRange(s, mid + 1, hi)

\* decodeURIComponent(s): [ok, value]; ok is FALSE when it throws (a percent
\* sign not followed by the two digits of a printable character)
decodeURIComponent(s) ==
    IF \A i \in 1..Len(s) : s[i] = "%" => ValidEscape(s, i)
    THEN [ok |-> TRUE, value |-> DecodeRange(s, 1, Len(s))]
    ELSE [ok |-> FALSE, value |-> <<>>]

Http == <<"h", "t", "t", "p">>

HttpScheme == <<"h", "t", "t", "p", ":", "/", "/">>

HttpsScheme == <<"h", "t", "t", "p", "s", ":", "/", "/">>

\* https://www.linkedin.com
LinkedInOrigin ==
    <<"h", "t", "t", "p", "s", ":", "/", "/", "w", "w", "w", ".",
      "l", "i", "n", "k", "e", "d", "i", "n", ".", "c", "o", "m">>

\* linkedin.com
LinkedInHost ==
    <<"l", "i", "n", "k", "e", "d", "i", "n", ".", "c", "o", "m">>

\* /jobs/view/
JobsView ==
    <<"/", "j", "o", "b", "s", "/", "v", "i", "e", "w", "/">>

\* /jobs/search-results
JobsSearchResults ==
    <<"/", "j", "o", "b", "s", "/", "s", "e", "a", "r", "c", "h",
      "-", "r", "e", "s", "u", "l", "t", "s">>

\* new URL(absolute): [ok, origin, hostname, pathname]; ok is FALSE when it throws
\* (no http or https scheme, or no host)
ParseUrl(absolute) ==
    LET start == IF StartsWith(absolute, HttpsScheme) THEN Len(HttpsScheme) + 1
                 ELSE IF StartsWith(absolute, HttpScheme) THEN Len(HttpScheme) + 1
                 ELSE 0
        hostEnd == SkipWhile(absolute, start, Letters \cup Digits \cup {".", "-"})
        pathEnd == IF hostEnd <= Len(absolute) /\ absolute[hostEnd] = "/"
                   THEN SkipWhile(absolute, hostEnd,
                                  {Printable[k] : k \in 1..Len(Printable)} \ {"?", "#"})
                   ELSE hostEnd
    IN  IF start = 0 \/ hostEnd = start
           \/ (hostEnd <= Len(absolute) /\ absolute[hostEnd] \notin {"/", "?", "#"})
        THEN [ok |-> FALSE, origin |-> <<>>, hostname |-> <<>>, pathname |-> <<>>]
        ELSE [ok |-> TRUE,
              origin |-> SubSeq(absolute, 1, hostEnd - 1),
              hostname |-> SubSeq(absolute, start, hostEnd - 1),
              pathname |-> IF pathEnd > hostEnd
                           THEN SubSeq(absolute, hostEnd, pathEnd - 1)
                           ELSE <<"/">>]

\* pathname.match(/\/jobs\/view\/(\d+)/): the digits captured by the first
\* match, <<>> without a match
JobIdOf(pathname) ==
    LET starts == {i \in 1..Len(pathname) :
                      /\ MatchAt(pathname, i, JobsView)
                      /\ i + Len(JobsView) <= Len(pathname)
                      /\ pathname[i + Len(JobsView)] \in Digits}
    IN  IF starts = {} THEN <<>>
        ELSE LET i == CHOOSE x \in starts : \A y \in starts : x <= y
                 j == i + Len(JobsView)
             IN  SubSeq(pathname, j, SkipWhile(pathname, j, Digits) - 1)

\* normalizeLinkedInJobUrl(candidate): a string, or NoCandidate for null
normalizeLinkedInJobUrl(candidate) ==
    IF candidate.type # "string" \/ Len(candidate.value) = 0 THEN NoCandidate
    ELSE LET decoded == decodeURIComponent(Trim(candidate.value))
             absolute == IF StartsWith(decoded.value, Http) THEN decoded.value
                         ELSE IF StartsWith(decoded.value, <<"/">>)
                         THEN LinkedInOrigin \o decoded.value
                         ELSE LinkedInOrigin \o <<"/">> \o decoded.value
             urlObj == ParseUrl(absolute)
         IN  IF ~decoded.ok \/ ~urlObj.ok THEN NoCandidate
             ELSE IF ~Includes(urlObj.hostname, LinkedInHost) THEN NoCandidate
             ELSE IF JobIdOf(urlObj.pathname) = <<>> THEN NoCandidate
             ELSE Candidate(LinkedInOrigin \o JobsView \o JobIdOf(urlObj.pathname))

\* trimmed.match(/(https:\/\/www\.linkedin\.com\/jobs\/view\/\d+)/i): the
\* text captured by the first match, <<>> without a match (the inputs are in
\* lower case, where the i flag changes nothing)
JobViewMatch(trimmed) ==
    LET prefix == LinkedInOrigin \o JobsView
        starts == {i \in 1..Len(trimmed) :
                      /\ MatchAt(trimmed, i, prefix)
                      /\ i + Len(prefix) <= Len(trimmed)
                      /\ trimmed[i + Len(prefix)] \in Digits}
    IN  IF starts = {} THEN <<>>
        ELSE LET i == CHOOSE x \in starts : \A y \in starts : x <= y
             IN  SubSeq(trimmed, i, SkipWhile(trimmed, i + Len(prefix), Digits) - 1)

\* ContentScript.normalizeLinkedInJobUrl(url): a string, or NoCandidate for
\* null; without a match of the pattern, a URL whose path includes
\* /jobs/view/ is returned with its search and hash emptied
ContentNormalizeLinkedInJobUrl(url) ==
    IF url.type # "string" \/ Len(url.value) = 0 THEN NoCandidate
    ELSE LET decoded == decodeURIComponent(url.value)
             trimmed == Trim(decoded.value)
             urlObj  == ParseUrl(trimmed)
         IN  IF ~decoded.ok THEN NoCandidate
             ELSE IF Len(trimmed) = 0 \/ ~Includes(trimmed, LinkedInHost) THEN NoCandidate
             ELSE IF JobViewMatch(trimmed) # <<>> THEN Candidate(JobViewMatch(trimmed))
             ELSE IF urlObj.ok /\ Includes(urlObj.pathname, JobsView)
             THEN Candidate(urlObj.origin \o urlObj.pathname)
             ELSE NoCandidate

\* isLinkedInSearchResultsUrl(url)
isLinkedInSearchResultsUrl(url) ==
    url.type = "string" /\ Includes(url.value, JobsSearchResults)

\* the candidates of resolveLinkedInJobUrl, in their order
Candidates(content, tab) ==
    << [value |-> content.url,       source |-> "job-content-url"],
       [value |-> content.rawUrl,    source |-> "job-content-raw-url"],
       [value |-> content.sourceUrl, source |-> "job-content-source-url"],
       [value |-> tab.url,           source |-> "active-tab-url"] >>

\* as FirstNormalized, the last candidate that normalizes winning
RECURSIVE FirstNormalizedMutant(_, _)
FirstNormalizedMutant(candidates, i) ==
    IF i > Len(candidates) THEN 0
    ELSE LET later == FirstNormalizedMutant(candidates, i + 1)
         IN  IF later # 0 THEN later
             ELSE IF normalizeLinkedInJobUrl(candidates[i].value) # NoCandidate THEN i
             ELSE 0

\* for (const candidate of candidates): the index of the first candidate at
\* or after i that normalizes, 0 if none does
RECURSIVE FirstNormalized(_, _)
FirstNormalized(candidates, i) ==
    IF i > Len(candidates) THEN 0
    ELSE IF normalizeLinkedInJobUrl(candidates[i].value) # NoCandidate THEN i
    ELSE FirstNormalized(candidates, i + 1)

\* resolveLinkedInJobUrl(jobContent): [url, source]
resolveLinkedInJobUrl(content, tab, dom) ==
    LET candidates == Candidates(content, tab)
        first      == FirstNormalized(candidates, 1)
    IN  IF first # 0
        THEN [url |-> normalizeLinkedInJobUrl(candidates[first].value),
              source |-> candidates[first].source]
        ELSE IF /\ isLinkedInSearchResultsUrl(tab.url)
                /\ normalizeLinkedInJobUrl(dom) # NoCandidate
        THEN [url |-> normalizeLinkedInJobUrl(dom), source |-> "dom-extraction"]
        ELSE [url |-> NoCandidate, source |-> "unresolved"]

\* https://evil.example/x
UrlEvil == Candidate(
    <<"h", "t", "t", "p", "s", ":", "/", "/", "e", "v", "i", "l",
      ".", "e", "x", "a", "m", "p", "l", "e", "/", "x">>)

\* https://www.linkedin.com/jobs/view/12345?trk=abc
UrlTracked == Candidate(
    <<"h", "t", "t", "p", "s", ":", "/", "/", "w", "w", "w", ".",
      "l", "i", "n", "k", "e", "d", "i", "n", ".", "c", "o", "m",
      "/", "j", "o", "b", "s", "/", "v", "i", "e", "w", "/", "1",
      "2", "3", "4", "5", "?", "t", "r", "k", "=", "a", "b", "c">>)

\* " /jobs/view/7#top " (relative, in white space, with a fragment)
UrlRelative == Candidate(
    <<" ", "/", "j", "o", "b", "s", "/", "v", "i", "e", "w", "/",
      "7", "#", "t", "o", "p", " ">>)

\* https%3A%2F%2Fwww.linkedin.com%2Fjobs%2Fview%2F99%3Fa%3D1 (encoded)
UrlEncoded == Candidate(
    <<"h", "t", "t", "p", "s", "%", "3", "A", "%", "2", "F", "%",
      "2", "F", "w", "w", "w", ".", "l", "i", "n", "k", "e", "d",
      "i", "n", ".", "c", "o", "m", "%", "2", "F", "j", "o", "b",
      "s", "%", "2", "F", "v", "i", "e", "w", "%", "2", "F", "9",
      "9", "%", "3", "F", "a", "%", "3", "D", "1">>)

\* https://www.linkedin.com/jobs/search-results/?currentJobId=5
UrlSearchResults == Candidate(
    <<"h", "t", "t", "p", "s", ":", "/", "/", "w", "w", "w", ".",
      "l", "i", "n", "k", "e", "d", "i", "n", ".", "c", "o", "m",
      "/", "j", "o", "b", "s", "/", "s", "e", "a", "r", "c", "h",
      "-", "r", "e", "s", "u", "l", "t", "s", "/", "?", "c", "u",
      "r", "r", "e", "n", "t", "J", "o", "b", "I", "d", "=", "5">>)

\* https://www.linkedin.com/jobs/view/abc
UrlNoDigits == Candidate(
    <<"h", "t", "t", "p", "s", ":", "/", "/", "w", "w", "w", ".",
      "l", "i", "n", "k", "e", "d", "i", "n", ".", "c", "o", "m",
      "/", "j", "o", "b", "s", "/", "v", "i", "e", "w", "/", "a",
      "b", "c">>)

\* jobs/view/8%
UrlMalformed == Candidate(
    <<"j", "o", "b", "s", "/", "v", "i", "e", "w", "/", "8", "%">>)

\* https://www.linkedin.com/jobs/view/42
UrlFromDom == Candidate(
    <<"h", "t", "t", "p", "s", ":", "/", "/", "w", "w", "w", ".",
      "l", "i", "n", "k", "e", "d", "i", "n", ".", "c", "o", "m",
      "/", "j", "o", "b", "s", "/", "v", "i", "e", "w", "/", "4", "2">>)

\* https://evil.example/jobs/view/9?ref=linkedin.com
UrlEvilJobs == Candidate(
    <<"h", "t", "t", "p", "s", ":", "/", "/", "e", "v", "i", "l",
      ".", "e", "x", "a", "m", "p", "l", "e", "/", "j", "o", "b",
      "s", "/", "v", "i", "e", "w", "/", "9", "?", "r", "e", "f",
      "=", "l", "i", "n", "k", "e", "d", "i", "n", ".", "c", "o", "m">>)

\* https://linkedin.com.evil.example/jobs/view/5
UrlHostTrick == Candidate(
    <<"h", "t", "t", "p", "s", ":", "/", "/", "l", "i", "n", "k",
      "e", "d", "i", "n", ".", "c", "o", "m", ".", "e", "v", "i",
      "l", ".", "e", "x", "a", "m", "p", "l", "e", "/", "j", "o",
      "b", "s", "/", "v", "i", "e", "w", "/", "5">>)

CandidateValues ==
    {NoCandidate, [type |-> "number", value |-> <<>>], UrlEvil, UrlTracked,
     UrlRelative, UrlEncoded, UrlSearchResults, UrlNoDigits, UrlMalformed}

\* what the script run in the page returns: null or a canonical URL
DomValues == {NoCandidate, UrlFromDom}

JobContents == [url : CandidateValues \cup {UrlEvilJobs, UrlHostTrick}, rawUrl : CandidateValues,
                sourceUrl : {NoCandidate, UrlTracked, UrlRelative}]

ActiveTabs == [url : {NoCandidate, UrlEvil, UrlTracked, UrlSearchResults}]

\* resolveLinkedInJobUrl, applied to a job content
Resolve ==
    /\ urlPc = "input"
    /\ resolved' = resolveLinkedInJobUrl(jobContent, activeTab, domExtracted)
    /\ urlPc' = "resolved"
    /\ UNCHANGED <<jobContent, activeTab, domExtracted, normPc, contentUrl, popupUrl>>
    /\ UNCHANGED <<latexVars, reqVars, extVars>>

\* both normalizers, applied to the URL of a job content
Normalize ==
    /\ normPc = "input"
    /\ contentUrl' = ContentNormalizeLinkedInJobUrl(jobContent.url)
    /\ popupUrl' = normalizeLinkedInJobUrl(jobContent.url)
    /\ normPc' = "normalized"
    /\ UNCHANGED <<jobContent, activeTab, domExtracted, urlPc, resolved>>
    /\ UNCHANGED <<latexVars, reqVars, extVars>>

----------------------------------------------------------------------------
(* The background coordinator and the popup waiting for it *)

MaxInits == 4

MaxPolls == 2

\* the response of a query nobody has sent
NoStatus == [kind |-> "none", isReady |-> FALSE]

\* this.sessionManager is the SessionManager of the init run started last
SessionManagerReady == inits \in readySms

\* init(), up to its first await: new managers replace the current ones and
\* sessionManager.init() starts
RECURSIVE StartInits(_, _, _)
StartInits(pcs, from, n) ==
    IF n = 0 THEN pcs
    ELSE StartInits([pcs EXCEPT ![from + 1] = "session"], from + 1, n - 1)

\* runtime.onStartup or runtime.onInstalled fires: every listener that
\* setupEventListeners has registered for it runs init()
RuntimeEvent ==
    /\ registered >= 1
    /\ inits + registered <= MaxInits
    /\ initPc' = StartInits(initPc, inits, registered)
    /\ inits' = inits + registered
    /\ UNCHANGED <<readySms, registered, waitPc, waitResponse, sessionStatus,
                   polls, sendResponses>>
    /\ UNCHANGED nonBgVars

\* await this.sessionManager.init() of one init run completes
InitSession(id) ==
    /\ initPc[id] = "session"
    /\ initPc' = [initPc EXCEPT ![id] = "setup"]
    /\ readySms' = readySms \cup {id}
    /\ UNCHANGED <<inits, registered, waitPc, waitResponse, sessionStatus,
                   polls, sendResponses>>
    /\ UNCHANGED nonBgVars

\* the rest of one init run: setupEventListeners() adds its listeners
InitSetup(id) ==
    /\ initPc[id] = "setup"
    /\ initPc' = [initPc EXCEPT ![id] = "done"]
    /\ registered' = registered + 1
    /\ UNCHANGED <<inits, readySms, waitPc, waitResponse, sessionStatus,
                   polls, sendResponses>>
    /\ UNCHANGED nonBgVars

\* handleGetSessionStatus(request, sendResponse): what it sends
handleGetSessionStatus == [kind |-> "status", isReady |-> SessionManagerReady]

\* a popup opens and calls waitForServices
WaitStart ==
    /\ waitPc \in {"idle", "returned"}
    /\ waitPc' = "query"
    /\ waitResponse' = NoStatus
    /\ sessionStatus' = NoStatus
    /\ polls' = 0
    /\ sendResponses' = 0
    /\ UNCHANGED <<inits, initPc, readySms, registered>>
    /\ UNCHANGED nonBgVars

\* sendMessageToBackground({type: "GET_SESSION_STATUS"}): without a listener
\* runtime.lastError is set and the promise rejects; otherwise every
\* registered listener runs handleMessage, which sends its response
WaitQuery ==
    /\ waitPc = "query"
    /\ waitPc' = "answered"
    /\ waitResponse' = IF registered = 0 THEN [kind |-> "lastError", isReady |-> FALSE]
                       ELSE handleGetSessionStatus
    /\ sendResponses' = registered
    /\ polls' = IF polls < MaxPolls THEN polls + 1 ELSE polls
    /\ UNCHANGED <<inits, initPc, readySms, registered, sessionStatus>>
    /\ UNCHANGED nonBgVars

\* a mutant of WaitCheck that returns whatever status it was sent
WaitCheckMutant ==
    /\ waitPc = "answered"
    /\ IF waitResponse.kind = "status"
       THEN /\ waitPc' = "returned"
            /\ sessionStatus' = waitResponse
       ELSE /\ waitPc' = "sleeping"
            /\ UNCHANGED sessionStatus
    /\ UNCHANGED <<inits, initPc, readySms, registered, waitResponse, polls,
                   sendResponses>>
    /\ UNCHANGED nonBgVars

\* waitForServices after its await: return a ready status, otherwise (not
\* ready, or the catch) start the 100 ms timer
WaitCheck ==
    /\ waitPc = "answered"
    /\ IF waitResponse.kind = "status" /\ waitResponse.isReady = TRUE
       THEN /\ waitPc' = "returned"
            /\ sessionStatus' = waitResponse
       ELSE /\ waitPc' = "sleeping"
            /\ UNCHANGED sessionStatus
    /\ UNCHANGED <<inits, initPc, readySms, registered, waitResponse, polls,
                   sendResponses>>
    /\ UNCHANGED nonBgVars

\* the timer fires: return this.waitForServices()
WaitTimer ==
    /\ waitPc = "sleeping"
    /\ waitPc' = "query"
    /\ UNCHANGED <<inits, initPc, readySms, registered, waitResponse,
                   sessionStatus, polls, sendResponses>>
    /\ UNCHANGED nonBgVars

\* no background script loaded, no popup open
BgIdle ==
    /\ inits = 0
    /\ initPc = [id \in 1..MaxInits |-> "none"]
    /\ readySms = {}
    /\ registered = 0
    /\ waitPc = "done"
    /\ waitResponse = NoStatus
    /\ sessionStatus = NoStatus
    /\ polls = 0
    /\ sendResponses = 0

----------------------------------------------------------------------------
(* Error texts of a failed generation request *)

UpperCase ==
    <<"A","B","C","D","E","F","G","H","I","J","K","L","M",
      "N","O","P","Q","R","S","T","U","V","W","X","Y","Z">>

LowerCase ==
    <<"a","b","c","d","e","f","g","h","i","j","k","l","m",
      "n","o","p","q","r","s","t","u","v","w","x","y","z">>

\* the character a pattern with the i flag compares
ToLower(c) ==
    IF \E k \in 1..26 : UpperCase[k] = c
    THEN LowerCase[CHOOSE k \in 1..26 : UpperCase[k] = c]
    ELSE c

\* "Resume generation failed:"
FailedPrefix ==
    <<"R", "e", "s", "u", "m", "e", " ", "g", "e", "n", "e", "r", "a",
      "t", "i", "o", "n", " ", "f", "a", "i", "l", "e", "d", ":">>

\* "Resume generation failed."
DefaultMessage ==
    <<"R", "e", "s", "u", "m", "e", " ", "g", "e", "n", "e", "r", "a",
      "t", "i", "o", "n", " ", "f", "a", "i", "l", "e", "d", ".">>

\* "Failed to generate resume."
FailedToGenerate ==
    <<"F", "a", "i", "l", "e", "d", " ", "t", "o", " ", "g", "e", "n",
      "e", "r", "a", "t", "e", " ", "r", "e", "s", "u", "m", "e", ".">>

\* "LinkedIn job link"
LinkedInJobLink ==
    <<"L", "i", "n", "k", "e", "d", "I", "n", " ", "j", "o", "b", " ",
      "l", "i", "n", "k">>

\* result.slice(0, 200)
MaxMessageLength == 200

\* /^Resume generation failed:\s*/i: the length of its match at the start
\* of s, 0 without a match
PrefixMatch(s) ==
    IF /\ Len(s) >= Len(FailedPrefix)
       /\ \A k \in 1..Len(FailedPrefix) : ToLower(s[k]) = ToLower(FailedPrefix[k])
    THEN SkipWhile(s, Len(FailedPrefix) + 1, Whitespace) - 1
    ELSE 0

\* while (pattern.test(result)) result = result.replace(pattern, "").trim()
RECURSIVE StripPrefixes(_)
StripPrefixes(s) ==
    IF PrefixMatch(s) = 0 THEN s
    ELSE StripPrefixes(Trim(SubSeq(s, PrefixMatch(s) + 1, Len(s))))

\* the pieces of a sequence of pieces, lo to hi, joined
RECURSIVE Flatten(_, _, _)
Flatten(pieces, lo, hi) ==
    IF lo > hi THEN <<>>
    ELSE IF lo = hi THEN pieces[lo]
    ELSE Flatten(pieces, lo, (lo + hi) \div 2)
         \o Flatten(pieces, (lo + hi) \div 2 + 1, hi)

\* replace(/<[^>]*>/g, " ") on s[lo..hi], reached inside a match or not:
\* [out, inTag]; lastGt is the position of the last > of s
RECURSIVE ReplaceTagsIn(_, _, _, _, _)
ReplaceTagsIn(s, lo, hi, inTag, lastGt) ==
    IF lo > hi THEN [out |-> <<>>, inTag |-> inTag]
    ELSE IF lo = hi
    THEN IF inTag THEN [out |-> <<>>, inTag |-> s[lo] # ">"]
         ELSE IF s[lo] = "<" /\ lastGt > lo THEN [out |-> <<" ">>, inTag |-> TRUE]
         ELSE [out |-> <<s[lo]>>, inTag |-> FALSE]
    ELSE LET mid   == (lo + hi) \div 2
             left  == ReplaceTagsIn(s, lo, mid, inTag, lastGt)
             right == ReplaceTagsIn(s, mid + 1, hi, left.inTag, lastGt)
         IN  [out |-> left.out \o right.out, inTag |-> right.inTag]

\* a mutant of ReplaceTags that leaves the markup in
ReplaceTagsMutant(s) == s

\* str.replace(/<[^>]*>/g, " ")
ReplaceTags(s) ==
    LET gts    == {q \in 1..Len(s) : s[q] = ">"}
        lastGt == IF gts = {} THEN 0 ELSE CHOOSE q \in gts : \A r \in gts : r <= q
    IN  ReplaceTagsIn(s, 1, Len(s), FALSE, lastGt).out

\* str.replace(/\s+/g, " ")
CollapseWhitespace(s) ==
    Flatten([i \in 1..Len(s) |->
                IF s[i] \notin Whitespace THEN <<s[i]>>
                ELSE IF i > 1 /\ s[i - 1] \in Whitespace THEN <<>>
                ELSE <<" ">>],
            1, Len(s))

\* str.replace(/\s{2,}/g, " ")
CollapseRuns(s) ==
    Flatten([i \in 1..Len(s) |->
                IF s[i] \notin Whitespace THEN <<s[i]>>
                ELSE IF i > 1 /\ s[i - 1] \in Whitespace THEN <<>>
                ELSE IF i < Len(s) /\ s[i + 1] \in Whitespace THEN <<" ">>
                ELSE <<s[i]>>],
            1, Len(s))

\* [a-zA-Z0-9_], the characters that make a word for \b
WordChars == Letters \cup Digits \cup {"_"}

\* result.search(/\bbody\s*\{/i): the first position of a match, 0 for -1
SearchCss(s) ==
    LET body == <<"b", "o", "d", "y">>
        hits == {i \in 1..Len(s) :
                    /\ i + 4 <= Len(s)
                    /\ \A k \in 1..4 : ToLower(s[i + k - 1]) = body[k]
                    /\ (i = 1 \/ s[i - 1] \notin WordChars)
                    /\ LET j == SkipWhile(s, i + 4, Whitespace)
                       IN  j <= Len(s) /\ s[j] = "{"}
    IN  IF hits = {} THEN 0 ELSE CHOOSE i \in hits : \A j \in hits : i <= j

\* result.search(/@media/i): the first position of a match, 0 for -1
SearchMedia(s) ==
    LET media == <<"@", "m", "e", "d", "i", "a">>
        hits  == {i \in 1..Len(s) :
                     /\ i + 5 <= Len(s)
                     /\ \A k \in 1..6 : ToLower(s[i + k - 1]) = media[k]}
    IN  IF hits = {} THEN 0 ELSE CHOOSE i \in hits : \A j \in hits : i <= j

\* the body of a response: the text of a plain body, of the error or the
\* message field of a JSON object, or of a JSON string
ErrorBody(kind, text) == [kind |-> kind, text |-> text]

\* the text of the body as response.text() gives it
RawText(body) ==
    CASE body.kind = "text" -> body.text
      [] body.kind = "json_error" ->
            <<"{", "\"", "e", "r", "r", "o", "r", "\"", ":", "\"">>
                \o body.text \o <<"\"", "}">>
      [] body.kind = "json_message" ->
            <<"{", "\"", "m", "e", "s", "s", "a", "g", "e", "\"", ":", "\"">>
                \o body.text \o <<"\"", "}">>
      [] body.kind = "json_string" -> <<"\"">> \o body.text \o <<"\"">>

\* MessageHandler.sanitizeErrorText(rawText)
sanitizeErrorText(body) ==
    LET trimmed == Trim(RawText(body))
    IN  IF Len(trimmed) = 0 THEN <<>>
        ELSE IF body.kind = "json_string" THEN Trim(body.text)
        ELSE IF body.kind \in {"json_error", "json_message"} /\ Len(body.text) > 0
        THEN Trim(body.text)
        ELSE Trim(CollapseWhitespace(ReplaceTags(trimmed)))

\* MessageHandler.refineErrorText(message)
refineErrorText(message) ==
    IF Len(message) = 0 THEN <<>>
    ELSE LET unprefixed == StripPrefixes(Trim(message))
             beforeCss  == IF SearchCss(unprefixed) # 0
                           THEN Trim(SubSeq(unprefixed, 1, SearchCss(unprefixed) - 1))
                           ELSE unprefixed
             beforeMedia == IF SearchMedia(beforeCss) # 0
                            THEN Trim(SubSeq(beforeCss, 1, SearchMedia(beforeCss) - 1))
                            ELSE beforeCss
             collapsed  == Trim(CollapseRuns(beforeMedia))
         IN  IF Len(collapsed) > MaxMessageLength
             THEN Trim(SubSeq(collapsed, 1, MaxMessageLength))
             ELSE collapsed

\* the message of the error generateResumeViaApi throws for a response
\* that is not ok
GenerationError(status, body) ==
    LET refinedError == refineErrorText(sanitizeErrorText(body))
        baseMessage  == IF Len(refinedError) > 0
                        THEN Trim(status \o <<" ">> \o refinedError)
                        ELSE status
        normalizedMessage == IF baseMessage[Len(baseMessage)] = "."
                             THEN baseMessage
                             ELSE baseMessage \o <<".">>
    IN  FailedPrefix \o <<" ">> \o normalizedMessage

\* PopupController.sanitizeMessage(message), for a string
sanitizeMessage(message) ==
    LET trimmed == Trim(message)
        result  == Trim(CollapseWhitespace(ReplaceTags(trimmed)))
    IN  IF Len(trimmed) = 0 THEN <<>>
        ELSE IF Len(result) = 0 THEN <<>>
        ELSE Trim(SubSeq(result, 1, IF Len(result) < MaxMessageLength
                                         THEN Len(result) ELSE MaxMessageLength))

\* PopupController.normalizeResumeErrorMessage(rawMessage)
normalizeResumeErrorMessage(rawMessage) ==
    LET sanitized == sanitizeMessage(rawMessage)
        result    == StripPrefixes(sanitized)
    IN  IF Len(sanitized) = 0 THEN DefaultMessage
        ELSE IF Len(result) = 0 THEN DefaultMessage
        ELSE FailedPrefix \o <<" ">> \o result

\* pieces of error bodies
Filler == [k \in 1..(MaxMessageLength + 10) |-> IF k % 7 = 0 THEN " " ELSE "x"]

BodyChunks ==
    {FailedPrefix \o <<" ">>,
     <<"R", "E", "S", "U", "M", "E", " ", "G", "E", "N", "E", "R", "A",
       "T", "I", "O", "N", " ", "F", "A", "I", "L", "E", "D", ":">>,
     <<"<", "b", ">">>, <<"<">>, <<">">>, <<"x">>, <<" ", " ">>,
     <<"b", "o", "d", "y", " ", "{">>, <<"@", "m", "e", "d", "i", "a">>,
     LinkedInJobLink, Filler}

MaxParts == 2

RECURSIVE BodyTexts(_)
BodyTexts(n) ==
    IF n = 0 THEN {<<>>}
    ELSE {t \o c : t \in BodyTexts(n - 1), c \in BodyChunks}

ErrorBodies ==
    {ErrorBody(kind, text) :
        kind \in {"text", "json_error", "json_message", "json_string"},
        text \in UNION {BodyTexts(n) : n \in 0..MaxParts}}

\* the backend has answered the generation request with a status that is
\* not ok; handleGenerateTailoredResume catches what generateResumeViaApi
\* throws and sends { error: error.message }
SendGenerationError ==
    /\ errPc = "input"
    /\ responseError' = GenerationError(<<"5", "0", "0">>, errBody)
    /\ errPc' = "sent"
    /\ UNCHANGED <<errBody, statusMessage, notification>>
    /\ UNCHANGED nonErrVars

\* handleGenerateResume: the response has no success, the catch shows
\* the error
ShowGenerationError ==
    /\ errPc = "sent"
    /\ LET message == IF Len(responseError) > 0 THEN responseError ELSE FailedToGenerate
           normalizedMessage == normalizeResumeErrorMessage(message)
       IN  /\ statusMessage' = normalizedMessage
           /\ notification' = IF Includes(message, LinkedInJobLink)
                               THEN sanitizeMessage(message)
                               ELSE normalizedMessage
    /\ errPc' = "shown"
    /\ UNCHANGED <<errBody, responseError>>
    /\ UNCHANGED nonErrVars

(* The popup: handleGenerateResume and AuthService.init *)

MaxClicks == 3

MaxCallers == 3

\* a mutant of GenerateClick without the isGeneratingResume guard
GenerateClickMutant(i) ==
    /\ genPc[i] = "none"
    /\ IF ~isLoggedIn \/ ~isLinkedInJob
       THEN /\ genPc' = [genPc EXCEPT ![i] = "returned"]
            /\ UNCHANGED isGeneratingResume
       ELSE /\ isGeneratingResume' = TRUE
            /\ genPc' = [genPc EXCEPT ![i] = "extract"]
    /\ UNCHANGED <<isLoggedIn, isLinkedInJob, requestsInFlight, initialized,
                   initPromise, authPc, doInits>>
    /\ UNCHANGED nonPopupVars

\* a click on the generate button: handleGenerateResume up to its first
\* await (fetchJobContentFromActiveTab)
GenerateClick(i) ==
    /\ genPc[i] = "none"
    /\ IF isGeneratingResume \/ ~isLoggedIn \/ ~isLinkedInJob
       THEN /\ genPc' = [genPc EXCEPT ![i] = "returned"]
            /\ UNCHANGED isGeneratingResume
       ELSE /\ isGeneratingResume' = TRUE
            /\ genPc' = [genPc EXCEPT ![i] = "extract"]
    /\ UNCHANGED <<isLoggedIn, isLinkedInJob, requestsInFlight, initialized,
                   initPromise, authPc, doInits>>
    /\ UNCHANGED nonPopupVars

\* fetchJobContentFromActiveTab has settled (its rejection is ignored);
\* resolveLinkedInJobUrl starts
GenerateExtracted(i) ==
    /\ genPc[i] = "extract"
    /\ genPc' = [genPc EXCEPT ![i] = "resolve"]
    /\ UNCHANGED <<isLoggedIn, isLinkedInJob, isGeneratingResume,
                   requestsInFlight, initialized, initPromise, authPc, doInits>>
    /\ UNCHANGED nonPopupVars

\* resolveLinkedInJobUrl has settled: without a job URL the handler throws
\* and its finally runs, with one the GENERATE_TAILORED_RESUME message is
\* sent
GenerateResolved(i) ==
    /\ genPc[i] = "resolve"
    /\ \E jobUrl \in BOOLEAN :
         IF jobUrl
         THEN /\ requestsInFlight' = requestsInFlight + 1
              /\ genPc' = [genPc EXCEPT ![i] = "sent"]
              /\ UNCHANGED isGeneratingResume
         ELSE /\ isGeneratingResume' = FALSE
              /\ genPc' = [genPc EXCEPT ![i] = "unresolved"]
              /\ UNCHANGED requestsInFlight
    /\ UNCHANGED <<isLoggedIn, isLinkedInJob, initialized, initPromise, authPc,
                   doInits>>
    /\ UNCHANGED nonPopupVars

\* the message has been answered (a response with success, a response
\* without, or runtime.lastError): the download or the catch, then the
\* finally
GenerateAnswered(i) ==
    /\ genPc[i] = "sent"
    /\ \E outcome \in {"succeeded", "failed"} :
         genPc' = [genPc EXCEPT ![i] = outcome]
    /\ requestsInFlight' = requestsInFlight - 1
    /\ isGeneratingResume' = FALSE
    /\ UNCHANGED <<isLoggedIn, isLinkedInJob, initialized, initPromise, authPc,
                   doInits>>
    /\ UNCHANGED nonPopupVars

\* a mutant of AuthInit that does not look at initPromise
AuthInitMutant(c) ==
    /\ authPc[c] = "none"
    /\ IF initialized
       THEN /\ authPc' = [authPc EXCEPT ![c] = "resolved"]
            /\ UNCHANGED <<initPromise, doInits>>
       ELSE /\ initPromise' = "pending"
            /\ doInits' = doInits + 1
            /\ authPc' = [authPc EXCEPT ![c] = "starter"]
    /\ UNCHANGED <<isLoggedIn, isLinkedInJob, isGeneratingResume, genPc,
                   requestsInFlight, initialized>>
    /\ UNCHANGED nonPopupVars

\* AuthService.init(), up to its return or its await
AuthInit(c) ==
    /\ authPc[c] = "none"
    /\ IF initialized
       THEN /\ authPc' = [authPc EXCEPT ![c] = "resolved"]
            /\ UNCHANGED <<initPromise, doInits>>
       ELSE IF initPromise # "null"
       THEN /\ authPc' = [authPc EXCEPT ![c] = "waiter"]
            /\ UNCHANGED <<initPromise, doInits>>
       ELSE /\ initPromise' = "pending"
            /\ doInits' = doInits + 1
            /\ authPc' = [authPc EXCEPT ![c] = "starter"]
    /\ UNCHANGED <<isLoggedIn, isLinkedInJob, isGeneratingResume, genPc,
                   requestsInFlight, initialized>>
    /\ UNCHANGED nonPopupVars

\* _doInit ends: loadStoredSession has settled, and a rejection was caught
DoInitEnd ==
    /\ initPromise = "pending"
    /\ initPromise' = "settled"
    /\ UNCHANGED <<isLoggedIn, isLinkedInJob, isGeneratingResume, genPc,
                   requestsInFlight, initialized, authPc, doInits>>
    /\ UNCHANGED nonPopupVars

\* an init() call continues behind the settled promise; the call that
\* started _doInit sets initialized
AuthInitResolve(c) ==
    /\ authPc[c] \in {"starter", "waiter"}
    /\ initPromise = "settled"
    /\ initialized' = (initialized \/ authPc[c] = "starter")
    /\ authPc' = [authPc EXCEPT ![c] = "resolved"]
    /\ UNCHANGED <<isLoggedIn, isLinkedInJob, isGeneratingResume, genPc,
                   requestsInFlight, initPromise, doInits>>
    /\ UNCHANGED nonPopupVars

PopupIdle ==
    /\ isLoggedIn = FALSE
    /\ isLinkedInJob = FALSE
    /\ isGeneratingResume = FALSE
    /\ genPc = [i \in 1..MaxClicks |-> "returned"]
    /\ requestsInFlight = 0
    /\ initialized = TRUE
    /\ initPromise = "settled"
    /\ authPc = [c \in 1..MaxCallers |-> "resolved"]
    /\ doInits = 1

(* The description cascade of scrapeLinkedInJob *)

\* the length of the text an element yields once trimmed and freed of its
\* heading; Absent where the selector finds no element
Absent == 0 - 1

TextLengths == {10, 40, 60}

\* #job-details or the content container: its paragraph, if it has one, and
\* its whole text
Containers ==
    {[present |-> FALSE, paragraph |-> Absent, text |-> 0]}
        \cup [present : {TRUE}, paragraph : TextLengths \cup {Absent}, text : {40, 60}]

Pages ==
    [guest : TextLengths \cup {Absent}, core : TextLengths \cup {Absent},
     inArticle : BOOLEAN, details : Containers, content : Containers]

\* !bestDescription || bestDescription.length < 50
TooShort(length) == length < MinDescriptionLength

\* if (text.length > bestDescription.length) bestDescription = text
IfLonger(length, current) == IF length > current THEN length ELSE current

\* the guest page selectors
CascadeGuest ==
    /\ cascadePc = 1
    /\ bestDescription' = IF page.guest # Absent THEN page.guest ELSE 0
    /\ cascadePc' = 2
    /\ UNCHANGED page
    /\ UNCHANGED nonCascadeVars

\* the core-section-container description
CascadeCore ==
    /\ cascadePc = 2
    /\ bestDescription' = IF TooShort(bestDescription) /\ page.core # Absent
                          THEN IfLonger(page.core, bestDescription)
                          ELSE bestDescription
    /\ cascadePc' = 3
    /\ UNCHANGED page
    /\ UNCHANGED nonCascadeVars

\* article.jobs-description__container with #job-details inside: the
\* paragraph's text is assigned as it is, the whole text only if longer
CascadeArticle ==
    /\ cascadePc = 3
    /\ bestDescription' =
           IF TooShort(bestDescription) /\ page.inArticle /\ page.details.present
           THEN IF page.details.paragraph # Absent
                THEN page.details.paragraph
                ELSE IfLonger(page.details.text, bestDescription)
           ELSE bestDescription
    /\ cascadePc' = 4
    /\ UNCHANGED page
    /\ UNCHANGED nonCascadeVars

\* one of the last two steps: a container's paragraph, or else its text
CascadeContainer(container, current) ==
    IF TooShort(current) /\ container.present
    THEN IF container.paragraph # Absent
         THEN IfLonger(container.paragraph, current)
         ELSE IfLonger(container.text, current)
    ELSE current

\* #job-details, wherever it is
CascadeDetails ==
    /\ cascadePc = 4
    /\ bestDescription' = CascadeContainer(page.details, bestDescription)
    /\ cascadePc' = 5
    /\ UNCHANGED page
    /\ UNCHANGED nonCascadeVars

\* .jobs-description__content
CascadeContent ==
    /\ cascadePc = 5
    /\ bestDescription' = CascadeContainer(page.content, bestDescription)
    /\ cascadePc' = 6
    /\ UNCHANGED page
    /\ UNCHANGED nonCascadeVars

CascadeIdle ==
    /\ page = [guest |-> Absent, core |-> Absent, inArticle |-> FALSE,
               details |-> [present |-> FALSE, paragraph |-> Absent, text |-> 0],
               content |-> [present |-> FALSE, paragraph |-> Absent, text |-> 0]]
    /\ cascadePc = 6
    /\ bestDescription = 0

(* The resume status cache of the background *)

MaxGets == 3

MaxUploads == 2

\* storage.local holds no resumeStatus
NoCache == 0 - 1

\* handleGetResumeStatus up to the end of getCachedResumeStatus: a cached
\* status is sent as the response, otherwise GET /users is fetched
GetStatusStart(g) ==
    /\ getPc[g] = "none"
    /\ IF statusCache # NoCache
       THEN /\ getPc' = [getPc EXCEPT ![g] = "fromCache"]
            /\ staleServed' = (staleServed \/ statusCache < completedVersion)
       ELSE /\ getPc' = [getPc EXCEPT ![g] = "fetching"]
            /\ UNCHANGED staleServed
    /\ UNCHANGED <<serverVersion, statusCache, getLocal, upPc, upVersion,
                   completedVersion>>
    /\ UNCHANGED nonCacheVars

\* the server answers GET /users; resumeData is computed from its answer
GetStatusFetched(g) ==
    /\ getPc[g] = "fetching"
    /\ getLocal' = [getLocal EXCEPT ![g] = serverVersion]
    /\ getPc' = [getPc EXCEPT ![g] = "caching"]
    /\ UNCHANGED <<serverVersion, statusCache, upPc, upVersion, completedVersion,
                   staleServed>>
    /\ UNCHANGED nonCacheVars

\* cacheResumeStatus(resumeData), then the response
GetStatusCached(g) ==
    /\ getPc[g] = "caching"
    /\ statusCache' = getLocal[g]
    /\ getPc' = [getPc EXCEPT ![g] = "fetched"]
    /\ UNCHANGED <<serverVersion, getLocal, upPc, upVersion, completedVersion,
                   staleServed>>
    /\ UNCHANGED nonCacheVars

\* handleResumeUpload: the server answers PUT /users with success
UploadStored(u) ==
    /\ upPc[u] = "none"
    /\ serverVersion' = serverVersion + 1
    /\ upVersion' = [upVersion EXCEPT ![u] = serverVersion + 1]
    /\ upPc' = [upPc EXCEPT ![u] = "clearing"]
    /\ UNCHANGED <<statusCache, getPc, getLocal, completedVersion, staleServed>>
    /\ UNCHANGED nonCacheVars

\* clearResumeStatusCache(), then the response { success: true }
UploadCleared(u) ==
    /\ upPc[u] = "clearing"
    /\ statusCache' = NoCache
    /\ completedVersion' = IF upVersion[u] > completedVersion
                            THEN upVersion[u] ELSE completedVersion
    /\ upPc' = [upPc EXCEPT ![u] = "done"]
    /\ UNCHANGED <<serverVersion, getPc, getLocal, upVersion, staleServed>>
    /\ UNCHANGED nonCacheVars

CacheIdle ==
    /\ serverVersion = 0
    /\ statusCache = NoCache
    /\ getPc = [g \in 1..MaxGets |-> "fetched"]
    /\ getLocal = [g \in 1..MaxGets |-> 0]
    /\ upPc = [u \in 1..MaxUploads |-> "done"]
    /\ upVersion = [u \in 1..MaxUploads |-> 0]
    /\ completedVersion = 0
    /\ staleServed = FALSE

(* One invocation of a message listener *)

BackgroundTypes ==
    {"GET_SESSION_STATUS", "LOGOUT", "UPLOAD_RESUME", "DOWNLOAD_RESUME",
     "GET_USER_DATA", "GET_RESUME_STATUS", "GENERATE_TAILORED_RESUME",
     "CLEAR_RESUME_CACHE", "GET_TAB_INFO", "OPEN_WEB_APP_TAB", "FORCE_SYNC",
     "FIND_WEBSITE_TAB", "FOCUS_TAB", "UNKNOWN"}

ContentTypes ==
    {"SCAN_JOB_POSTING", "EXTRACT_JOB_CONTENT", "SESSION_CHANGED", "UNKNOWN"}

\* a mutant of HandlerPaths with work that throws behind a sent response
HandlerPathsMutant(side, type) ==
    {<<"await", "respond", "throw">>, <<"respond">>}

\* the ways through the handler of a message type: "await" is work that
\* settles, "throw" work that throws inside the handler's try, "respond" a
\* sendResponse call, "return" a return statement
HandlerPaths(side, type) ==
    IF side = "background"
    THEN CASE type = "GET_SESSION_STATUS" ->
                {<<"respond", "return">>, <<"respond">>, <<"throw">>}
           [] type = "LOGOUT" ->
                {<<"await", "await", "respond">>, <<"throw">>, <<"await", "throw">>}
           [] type = "UPLOAD_RESUME" ->
                {<<"throw">>, <<"await", "throw">>, <<"await", "await", "throw">>,
                 <<"await", "await", "await", "respond">>}
           [] type = "DOWNLOAD_RESUME" ->
                {<<"throw">>, <<"await", "throw">>, <<"await", "await", "throw">>,
                 <<"await", "await", "await", "respond">>}
           [] type = "GET_USER_DATA" -> {<<"respond">>, <<"throw">>}
           [] type = "GET_RESUME_STATUS" ->
                {<<"throw">>, <<"await", "respond", "return">>,
                 <<"await", "await", "throw">>,
                 <<"await", "await", "await", "respond">>}
           [] type = "GENERATE_TAILORED_RESUME" ->
                {<<"throw">>, <<"await", "throw">>, <<"await", "respond">>}
           [] type = "CLEAR_RESUME_CACHE" -> {<<"await", "respond">>}
           [] type = "GET_TAB_INFO" -> {<<"await", "respond">>, <<"throw">>}
           [] type = "OPEN_WEB_APP_TAB" ->
                {<<"await", "await", "respond", "return">>,
                 <<"await", "await", "await", "respond">>, <<"await", "throw">>}
           [] type = "FORCE_SYNC" -> {<<"await", "respond">>, <<"throw">>}
           [] type = "FIND_WEBSITE_TAB" -> {<<"await", "respond">>, <<"throw">>}
           [] type = "FOCUS_TAB" ->
                {<<"respond", "return">>, <<"await", "await", "respond">>,
                 <<"await", "throw">>}
           [] OTHER -> {<<"respond">>}
    ELSE CASE type = "SCAN_JOB_POSTING" ->
                {<<"await", "respond">>, <<"await", "throw">>}
           [] type = "EXTRACT_JOB_CONTENT" -> {<<"await", "respond">>, <<"throw">>}
           [] OTHER -> {<<"respond">>}

\* the listener is invoked with a message
Dispatch ==
    /\ msgPc = "none"
    /\ \E side \in {"background", "content"} :
         \E type \in (IF side = "background" THEN BackgroundTypes ELSE ContentTypes) :
           \E path \in HandlerPaths(side, type) :
             /\ msgSide' = side
             /\ msgType' = type
             /\ msgSteps' = path
    /\ msgSends' = 0
    /\ msgPc' = "handling"
    /\ UNCHANGED nonMsgVars

\* the handler's next step; what is thrown lands in the catch of the
\* handler, which sends the error and ends the invocation
HandlerStep ==
    /\ msgPc = "handling"
    /\ msgSteps # <<>>
    /\ LET step == Head(msgSteps)
       IN  /\ msgSends' = IF step \in {"respond", "throw"} THEN msgSends + 1
                           ELSE msgSends
           /\ msgSteps' = IF step \in {"throw", "return"} THEN <<>>
                           ELSE Tail(msgSteps)
    /\ UNCHANGED <<msgSide, msgType, msgPc>>
    /\ UNCHANGED nonMsgVars

\* the handler's promise settles
HandlerEnd ==
    /\ msgPc = "handling"
    /\ msgSteps = <<>>
    /\ msgPc' = "done"
    /\ UNCHANGED <<msgSide, msgType, msgSteps, msgSends>>
    /\ UNCHANGED nonMsgVars

MsgIdle ==
    /\ msgSide = "background"
    /\ msgType = "UNKNOWN"
    /\ msgSteps = <<>>
    /\ msgSends = 1
    /\ msgPc = "done"

ErrIdle ==
    /\ errBody = ErrorBody("text", <<>>)
    /\ errPc = "shown"
    /\ responseError = <<>>
    /\ statusMessage = <<>>
    /\ notification = <<>>

ExtIdle ==
    BgIdle /\ ErrIdle /\ PopupIdle /\ CascadeIdle /\ CacheIdle /\ MsgIdle

----------------------------------------------------------------------------
(* Specifications *)

UrlIdle ==
    /\ jobContent = [url |-> NoCandidate, rawUrl |-> NoCandidate, sourceUrl |-> NoCandidate]
    /\ activeTab = [url |-> NoCandidate]
    /\ domExtracted = NoCandidate
    /\ urlPc = "resolved"
    /\ resolved = [url |-> NoCandidate, source |-> "unresolved"]
    /\ normPc = "normalized"
    /\ contentUrl = NoCandidate
    /\ popupUrl = NoCandidate

InitIdle ==
    /\ resumes = <<>>
    /\ route = "POST_resumes"
    /\ pc = "idle"
    /\ req = ReqDefault
    /\ script = <<>>
    /\ attempts = 0
    /\ calls = 0
    /\ inFlight = 0
    /\ validatedAt = 0
    /\ customizedResume = <<>>
    /\ genError = <<>>
    /\ jobData = EmptyJob
    /\ browser = "null"
    /\ launches = 0
    /\ closes = 0
    /\ thrown = <<>>
    /\ scrapeResult = "none"
    /\ exitRoute = "none"
    /\ response = NoResponse

\* the service: a user with a master resume and no tailored resume yet
Init ==
    /\ doc = <<>>
    /\ latexPc = "validated"
    /\ isValid = FALSE
    /\ repaired = <<>>
    /\ repairedValid = FALSE
    /\ repairedTwice = <<>>
    /\ UrlIdle
    /\ ExtIdle
    /\ master \in MasterDocs
    /\ InitIdle

Next ==
    \/ NewRequest
    \/ EndRequest
    \/ ResumesStart
    \/ TailorIssue
    \/ TailorComplete
    \/ SaveResume
    \/ RenderPdf
    \/ PutResume
    \/ PutUser
    \/ UploadResume
    \/ LinkedinStart
    \/ ScrapeEnter
    \/ ScrapeNavigate
    \/ ScrapeExtract
    \/ ScrapeRetry
    \/ ScrapeGate
    \/ ScrapeCatch
    \/ ScrapeFinally
    \/ LinkedinAfterScrape
    \/ ScrapeRouteStart
    \/ ScrapeRouteAfterScrape
    \/ ScrapeCall
    \/ ScrapeCallEnd

Spec == Init /\ [][Next]_vars

\* the validator on every document of at most MaxChunks chunks
InitLatex ==
    /\ doc \in Docs
    /\ latexPc = "input"
    /\ isValid = FALSE
    /\ repaired = <<>>
    /\ repairedValid = FALSE
    /\ repairedTwice = <<>>
    /\ UrlIdle
    /\ ExtIdle
    /\ master = <<>>
    /\ InitIdle

NextLatex ==
    \/ Validate
    \/ Repair
    \/ ValidateRepaired
    \/ RepairAgain

SpecLatex == InitLatex /\ [][NextLatex]_vars

\* resolveLinkedInJobUrl on every combination of the candidate values
InitUrl ==
    /\ jobContent \in JobContents
    /\ activeTab \in ActiveTabs
    /\ domExtracted \in DomValues
    /\ urlPc = "input"
    /\ resolved = [url |-> NoCandidate, source |-> "unresolved"]
    /\ normPc = "input"
    /\ contentUrl = NoCandidate
    /\ popupUrl = NoCandidate
    /\ ExtIdle
    /\ doc = <<>>
    /\ latexPc = "validated"
    /\ isValid = FALSE
    /\ repaired = <<>>
    /\ repairedValid = FALSE
    /\ repairedTwice = <<>>
    /\ master = <<>>
    /\ InitIdle

NextUrl == Resolve \/ Normalize

SpecUrl == InitUrl /\ [][NextUrl]_vars

\* the background script has just been loaded (backgroundService.init() is
\* under way) and no popup is open
InitBg ==
    /\ inits = 1
    /\ initPc = [id \in 1..MaxInits |-> IF id = 1 THEN "session" ELSE "none"]
    /\ readySms = {}
    /\ registered = 0
    /\ waitPc = "idle"
    /\ waitResponse = NoStatus
    /\ sessionStatus = NoStatus
    /\ polls = 0
    /\ sendResponses = 0
    /\ ErrIdle
    /\ PopupIdle
    /\ CascadeIdle
    /\ CacheIdle
    /\ MsgIdle
    /\ doc = <<>>
    /\ latexPc = "validated"
    /\ isValid = FALSE
    /\ repaired = <<>>
    /\ repairedValid = FALSE
    /\ repairedTwice = <<>>
    /\ UrlIdle
    /\ master = <<>>
    /\ InitIdle

NextBg ==
    \/ RuntimeEvent
    \/ \E id \in 1..MaxInits : InitSession(id)
    \/ \E id \in 1..MaxInits : InitSetup(id)
    \/ WaitStart
    \/ WaitQuery
    \/ WaitCheck
    \/ WaitTimer

SpecBg == InitBg /\ [][NextBg]_vars

\* the error text of every body, through the background and the popup
InitErr ==
    /\ errBody \in ErrorBodies
    /\ errPc = "input"
    /\ responseError = <<>>
    /\ statusMessage = <<>>
    /\ notification = <<>>
    /\ BgIdle
    /\ PopupIdle
    /\ CascadeIdle
    /\ CacheIdle
    /\ MsgIdle
    /\ doc = <<>>
    /\ latexPc = "validated"
    /\ isValid = FALSE
    /\ repaired = <<>>
    /\ repairedValid = FALSE
    /\ repairedTwice = <<>>
    /\ UrlIdle
    /\ master = <<>>
    /\ InitIdle

NextErr == SendGenerationError \/ ShowGenerationError

SpecErr == InitErr /\ [][NextErr]_vars

\* a popup just constructed, logged in or not, on a job page or not
InitPopup ==
    /\ isLoggedIn \in BOOLEAN
    /\ isLinkedInJob \in BOOLEAN
    /\ isGeneratingResume = FALSE
    /\ genPc = [i \in 1..MaxClicks |-> "none"]
    /\ requestsInFlight = 0
    /\ initialized = FALSE
    /\ initPromise = "null"
    /\ authPc = [c \in 1..MaxCallers |-> "none"]
    /\ doInits = 0
    /\ BgIdle
    /\ ErrIdle
    /\ CascadeIdle
    /\ CacheIdle
    /\ MsgIdle
    /\ doc = <<>>
    /\ latexPc = "validated"
    /\ isValid = FALSE
    /\ repaired = <<>>
    /\ repairedValid = FALSE
    /\ repairedTwice = <<>>
    /\ UrlIdle
    /\ master = <<>>
    /\ InitIdle

NextPopup ==
    \/ \E i \in 1..MaxClicks : GenerateClick(i)
    \/ \E i \in 1..MaxClicks : GenerateExtracted(i)
    \/ \E i \in 1..MaxClicks : GenerateResolved(i)
    \/ \E i \in 1..MaxClicks : GenerateAnswered(i)
    \/ \E c \in 1..MaxCallers : AuthInit(c)
    \/ DoInitEnd
    \/ \E c \in 1..MaxCallers : AuthInitResolve(c)

SpecPopup == InitPopup /\ [][NextPopup]_vars

\* the cascade on every page
InitCascade ==
    /\ page \in Pages
    /\ cascadePc = 1
    /\ bestDescription = 0
    /\ BgIdle
    /\ ErrIdle
    /\ PopupIdle
    /\ CacheIdle
    /\ MsgIdle
    /\ doc = <<>>
    /\ latexPc = "validated"
    /\ isValid = FALSE
    /\ repaired = <<>>
    /\ repairedValid = FALSE
    /\ repairedTwice = <<>>
    /\ UrlIdle
    /\ master = <<>>
    /\ InitIdle

NextCascade ==
    \/ CascadeGuest
    \/ CascadeCore
    \/ CascadeArticle
    \/ CascadeDetails
    \/ CascadeContent

SpecCascade == InitCascade /\ [][NextCascade]_vars

\* nothing cached, and handlers of both kinds still to run
InitCache ==
    /\ serverVersion = 0
    /\ statusCache = NoCache
    /\ getPc = [g \in 1..MaxGets |-> "none"]
    /\ getLocal = [g \in 1..MaxGets |-> 0]
    /\ upPc = [u \in 1..MaxUploads |-> "none"]
    /\ upVersion = [u \in 1..MaxUploads |-> 0]
    /\ completedVersion = 0
    /\ staleServed = FALSE
    /\ BgIdle
    /\ ErrIdle
    /\ PopupIdle
    /\ CascadeIdle
    /\ MsgIdle
    /\ doc = <<>>
    /\ latexPc = "validated"
    /\ isValid = FALSE
    /\ repaired = <<>>
    /\ repairedValid = FALSE
    /\ repairedTwice = <<>>
    /\ UrlIdle
    /\ master = <<>>
    /\ InitIdle

NextCache ==
    \/ \E g \in 1..MaxGets : GetStatusStart(g)
    \/ \E g \in 1..MaxGets : GetStatusFetched(g)
    \/ \E g \in 1..MaxGets : GetStatusCached(g)
    \/ \E u \in 1..MaxUploads : UploadStored(u)
    \/ \E u \in 1..MaxUploads : UploadCleared(u)

SpecCache == InitCache /\ [][NextCache]_vars

\* a listener about to be invoked
InitMsg ==
    /\ msgSide = "background"
    /\ msgType = "UNKNOWN"
    /\ msgSteps = <<>>
    /\ msgSends = 0
    /\ msgPc = "none"
    /\ BgIdle
    /\ ErrIdle
    /\ PopupIdle
    /\ CascadeIdle
    /\ CacheIdle
    /\ doc = <<>>
    /\ latexPc = "validated"
    /\ isValid = FALSE
    /\ repaired = <<>>
    /\ repairedValid = FALSE
    /\ repairedTwice = <<>>
    /\ UrlIdle
    /\ master = <<>>
    /\ InitIdle

NextMsg == Dispatch \/ HandlerStep \/ HandlerEnd

SpecMsg == InitMsg /\ [][NextMsg]_vars

\* the popup's promises and timers are served
FairSpecBg ==
    SpecBg /\ WF_vars(WaitQuery) /\ WF_vars(WaitCheck) /\ WF_vars(WaitTimer)

----------------------------------------------------------------------------
(* Properties *)

TailoringRoutes == {"POST_resumes", "POST_linkedin"}

\* the request has gone through the retry loop
TailoringOver == Len(script) = ScriptLen /\ pc \in {"save", "pdf", "done"}

\* every attempt of the budget was made and none validated
BudgetExhausted ==
    /\ Len(script) = ScriptLen
    /\ pc = "done"
    /\ validatedAt = 0
    /\ attempts = (IF route = "POST_resumes" THEN 3 ELSE 2)

\* the request passed the checks that precede the validation of the master
ReachedMasterCheck ==
    /\ route \in TailoringRoutes
    /\ pc = "done"
    /\ req.auth = "ok"
    /\ req.userFound
    /\ Len(req.jobTitle) > 0
    /\ Len(master) > 0

\* the answer is a text that does not validate, not even repaired
FailsAfterRepair(answer) ==
    answer.kind = "text" /\ ~generateCustomResume(answer).ok

\* the answer is a text that validates, as it is or repaired
Validates(answer) == generateCustomResume(answer).ok

\* C1: every resume document in the collection of the user passes
\* quickValidateLatex, whatever the generative service answered and whatever
\* the requests were.
C1_StoredResumesValid ==
    \A i \in 1..Len(resumes) : quickValidateLatex(resumes[i])

\* C1 witness: a repaired document was stored by a POST and a PUT has then
\* replaced a stored document.
C1_Witness ==
    /\ Len(resumes) = 2
    /\ \E i \in 1..2 : resumes[i] = balanceLatexTags(AnswerRepairable)
    /\ \E i \in 1..2 : resumes[i] = <<"\\", "x">>
    /\ route = "PUT_resume"
    /\ pc = "done"
    /\ response.status = 200

\* C2 (as claimed): in both tailoring routes a master document that fails
\* quickValidateLatex ends the request without a generative call, without a
\* browser, and with the error kind invalid_master_resume.
C2_InvalidMasterKind ==
    (ReachedMasterCheck /\ ~quickValidateLatex(master))
        => /\ calls = 0
           /\ launches = 0
           /\ response.errorType = "invalid_master_resume"

\* C3 (as claimed): when the first two answers fail even after repair and the
\* third validates, tailoring succeeds with the document of the third attempt
\* and exactly 3 generative calls were made.
C3_ThirdAttemptWins ==
    (/\ TailoringOver
     /\ FailsAfterRepair(script[1])
     /\ FailsAfterRepair(script[2])
     /\ Validates(script[3]))
        => /\ calls = 3
           /\ validatedAt = 3
           /\ customizedResume = generateCustomResume(script[3]).value

\* C3 (amended): that holds in POST /api/resumes, whose budget is 3; in
\* generate-from-linkedin, whose budget is 2, the request ends after exactly
\* 2 calls with the error kind resume_generation_failed.
C3_ThirdAttemptWinsInResumesRoute ==
    (/\ TailoringOver
     /\ FailsAfterRepair(script[1])
     /\ FailsAfterRepair(script[2])
     /\ Validates(script[3]))
        => IF route = "POST_resumes"
           THEN /\ calls = 3
                /\ validatedAt = 3
                /\ customizedResume = generateCustomResume(script[3]).value
           ELSE /\ calls = 2
                /\ validatedAt = 0
                /\ pc = "done"
                /\ response.errorType = "resume_generation_failed"

\* C3 witness: POST /api/resumes has answered 200 after two failed attempts
\* and a third one that validated.
C3_Witness ==
    /\ route = "POST_resumes"
    /\ pc = "done"
    /\ Len(script) = ScriptLen
    /\ FailsAfterRepair(script[1])
    /\ FailsAfterRepair(script[2])
    /\ Validates(script[3])
    /\ calls = 3
    /\ response.status = 200

\* C4: a request makes at most maxAttempts generative calls (3 in POST
\* /api/resumes, 2 in generate-from-linkedin), at most one call is in flight,
\* and a call is issued only when no call is in flight and no earlier attempt
\* of the request has validated.
C4_SequentialBoundedRetries ==
    /\ [](calls <= (IF route = "POST_resumes" THEN 3 ELSE 2) /\ inFlight <= 1)
    /\ [][calls' > calls => (inFlight = 0 /\ validatedAt = 0)]_vars

\* C4 witness: the last call the budget allows is in flight.
C4_Witness ==
    /\ inFlight = 1
    /\ route = "POST_linkedin"
    /\ calls = 2

\* C5 (as claimed): in every tailoring route, when every attempt of the budget
\* has failed, the response carries the error kind resume_generation_failed.
C5_ExhaustedKind ==
    (route \in TailoringRoutes /\ BudgetExhausted)
        => response.errorType = "resume_generation_failed"

\* C6 (as claimed): a request in which the generative service itself failed
\* at every attempt does not end with the error kind of a request whose every
\* answer failed validation (generation failed after N attempts).
C6_ServiceFailureDistinct ==
    (/\ route \in TailoringRoutes
     /\ BudgetExhausted
     /\ \A k \in 1..calls : script[k].kind # "text")
        => response.errorType \notin {"resume_generation_failed",
                                      "invalid_generated_resume"}

\* C7 (as claimed): scrapeLinkedInJob returns no job whose description is
\* shorter than 50, and a final description shorter than 50 always ends in
\* the error kind description_missing.
C7_ShortDescriptionMissing ==
    /\ scrapeResult = "returned" => jobData.jobDescription.len >= 50
    /\ (/\ route = "POST_linkedin"
        /\ pc = "done"
        /\ exitRoute = "gate"
        /\ jobData.jobDescription.len < 50)
           => response.errorType = "description_missing"

\* C7 (amended): scrapeLinkedInJob returns no job whose description is
\* shorter than 50; a final description shorter than 50 ends in
\* description_missing when a title or a company was extracted, and in
\* extraction_failed when neither was.
C7_ShortDescriptionNeverReturned ==
    /\ scrapeResult = "returned" => jobData.jobDescription.len >= 50
    /\ (/\ route = "POST_linkedin"
        /\ pc = "done"
        /\ exitRoute = "gate"
        /\ jobData.jobDescription.len < 50)
           => response.errorType =
                 (IF Len(jobData.jobTitle) = 0 /\ Len(jobData.companyName) = 0
                  THEN "extraction_failed"
                  ELSE "description_missing")

\* C7 witness: the recovery pass left a description of 49 characters and the
\* request ended with description_missing.
C7_Witness ==
    /\ route = "POST_linkedin"
    /\ pc = "done"
    /\ exitRoute = "gate"
    /\ jobData.jobDescription.len = 49
    /\ Len(jobData.jobTitle) > 0
    /\ response.errorType = "description_missing"

ScrapeRunning ==
    pc \in {"s_enter", "s_page", "s_extract", "s_retry", "s_gate", "s_catch",
            "s_finally"}

\* C8: once scrapeLinkedInJob has returned or thrown, a browser it launched
\* has been closed exactly once and is not open; no browser is closed more
\* often than it was launched.
C8_BrowserClosedOnce ==
    /\ closes <= launches
    /\ ~ScrapeRunning => (browser # "open" /\ closes = launches)

\* C8 witness: the call has thrown after a navigation error, with the browser
\* launched and closed once.
C8_Witness ==
    /\ pc = "s_exit"
    /\ exitRoute = "navigate"
    /\ scrapeResult = "threw"
    /\ launches = 1
    /\ closes = 1
    /\ browser = "closed"

\* the conditions of the claim C9, stated on the document
NonBlank(s) == \E i \in 1..Len(s) : s[i] \notin Whitespace

Occurrences(s, i, ch) == Cardinality({k \in 1..i : s[k] = ch})

BracesBalanced(s) ==
    /\ \A i \in 1..Len(s) : Occurrences(s, i, "{") >= Occurrences(s, i, "}")
    /\ Occurrences(s, Len(s), "{") = Occurrences(s, Len(s), "}")

HasCommandToken(s) ==
    \E i \in 1..Len(s) :
        /\ s[i] = "\\"
        /\ \E j \in (i + 1)..Len(s) :
             /\ \A k \in (i + 1)..j : s[k] \in Letters
             /\ \/ j = Len(s)
                \/ s[j + 1] \in ({"{"} \cup Whitespace)

\* the environment names that occur between braces in s
NamesIn(s) ==
    {SubSeq(s, j, k) : <<j, k>> \in
        {p \in (2..Len(s)) \X (2..Len(s)) :
            /\ p[1] <= p[2]
            /\ s[p[1] - 1] = "{"
            /\ p[2] < Len(s)
            /\ s[p[2] + 1] = "}"
            /\ \A m \in p[1]..p[2] : s[m] \in EnvNameChars}}

\* the positions of \begin{name} (kw = BeginKw) or \end{name} (kw = EndKw)
TokensOf(s, kw, name) ==
    {i \in 1..Len(s) : MatchAt(s, i, kw \o name \o <<"}">>)}

EnvCountsEqual(s) ==
    \A name \in NamesIn(s) :
        Cardinality(TokensOf(s, BeginKw, name)) = Cardinality(TokensOf(s, EndKw, name))

\* some \end{name} stands where no \begin{name} is open
HasUnopenedEnd(s) ==
    \E name \in NamesIn(s) :
        \E e \in TokensOf(s, EndKw, name) :
            Cardinality({b \in TokensOf(s, BeginKw, name) : b < e})
                <= Cardinality({x \in TokensOf(s, EndKw, name) : x < e})

\* C9: quickValidateLatex(s) is true exactly when s is not blank, its braces
\* never close more than was opened and end balanced, it holds a command
\* token, and every environment name has as many begins as ends.
C9_ValidatorCharacterised ==
    latexPc = "validated"
        => (isValid <=> /\ NonBlank(doc)
                        /\ BracesBalanced(doc)
                        /\ HasCommandToken(doc)
                        /\ EnvCountsEqual(doc))

\* C9 witness: a document with a command inside an environment was found
\* valid.
C9_Witness ==
    /\ latexPc = "validated"
    /\ isValid
    /\ Len(EnvMatches(doc, 1, BeginKw)) = 1
    /\ Includes(doc, <<"\\", "x">>)

\* C10 (as claimed): quickValidateLatex rejects every document in which an
\* \end{X} stands where no \begin{X} is open, also when the totals are equal.
C10_UnopenedEndRejected ==
    (latexPc = "validated" /\ HasUnopenedEnd(doc)) => ~isValid

\* C10 (amended): the position of an \end{X} is not looked at; a document in
\* which an \end{X} stands where no \begin{X} is open is rejected exactly when
\* some name has different numbers of begins and ends or the braces are not
\* balanced.
C10_UnopenedEndRejectedByCount ==
    (latexPc = "validated" /\ HasUnopenedEnd(doc))
        => (isValid <=> (BracesBalanced(doc) /\ EnvCountsEqual(doc)))

\* C10 witness: a document whose braces are balanced was rejected for an
\* \end{X} that has no \begin{X} at all.
C10_Witness ==
    /\ latexPc = "validated"
    /\ HasUnopenedEnd(doc)
    /\ BracesBalanced(doc)
    /\ Len(EnvMatches(doc, 1, BeginKw)) = Len(EnvMatches(doc, 1, EndKw))
    /\ ~isValid

----------------------------------------------------------------------------
(* Properties of balanceLatexTags *)

\* the text the repair added behind the document
Appended(s, r) == SubSeq(r, Len(s) + 1, Len(r))

\* s followed by one closing brace for every brace left open
Braced(s) ==
    LET open  == Occurrences(s, Len(s), "{")
        close == Occurrences(s, Len(s), "}")
    IN  s \o [k \in 1..(IF open > close THEN open - close ELSE 0) |-> "}"]

\* the opens left unmatched when the ends of a name are paired with its last
\* opens: of n opens and m < n ends of a name, the first n - m opens
UnmatchedOpens(s) ==
    UNION {{b \in TokensOf(s, BeginKw, name) :
               Cardinality({x \in TokensOf(s, BeginKw, name) : x <= b})
                   <= Cardinality(TokensOf(s, BeginKw, name))
                        - Cardinality(TokensOf(s, EndKw, name))}
           : name \in NamesIn(s)}

\* the names opened at the positions of opens, last position first
RECURSIVE NamesLastFirst(_, _)
NamesLastFirst(s, opens) ==
    IF opens = {} THEN <<>>
    ELSE LET last == CHOOSE i \in opens : \A j \in opens : j <= i
         IN  <<EnvNameAt(s, last, BeginKw)>> \o NamesLastFirst(s, opens \ {last})

\* \end{name} for every name of a list, in the order of the list
RECURSIVE EndTokens(_)
EndTokens(names) ==
    IF names = <<>> THEN <<>>
    ELSE EndKw \o Head(names) \o <<"}">> \o EndTokens(Tail(names))

\* the document handed in has fewer \end{name} than \begin{name}
HasFewerEnds(name) ==
    Cardinality(TokensOf(doc, EndKw, name)) < Cardinality(TokensOf(doc, BeginKw, name))

Repaired == latexPc \in {"repaired", "revalidated", "rerepaired"}

RECURSIVE WellNested(_, _, _)
WellNested(s, i, stack) ==
    IF i > Len(s) THEN TRUE
    ELSE LET opened == EnvNameAt(s, i, BeginKw)
             closed == EnvNameAt(s, i, EndKw)
         IN  IF opened # <<>> THEN WellNested(s, i + 1, <<opened>> \o stack)
             ELSE IF closed = <<>> \/ TokensOf(s, BeginKw, closed) = {}
                  THEN WellNested(s, i + 1, stack)
             ELSE IF stack # <<>> /\ Head(stack) = closed
                  THEN WellNested(s, i + 1, Tail(stack))
             ELSE FALSE

\* no closing brace stands where no brace is open
NoEarlyClose(s) ==
    \A i \in 1..Len(s) : Occurrences(s, i, "{") >= Occurrences(s, i, "}")

\* no name has more \end{name} than \begin{name}
NoSurplusEnd(s) ==
    \A name \in NamesIn(s) :
        Cardinality(TokensOf(s, EndKw, name)) <= Cardinality(TokensOf(s, BeginKw, name))

Revalidated == latexPc \in {"revalidated", "rerepaired"}

\* C12 (as claimed): the repaired document validates unless the document has
\* no command token or has misordered environments; surplus closing braces,
\* a closing brace before its opening brace and an \end{X} without a
\* \begin{X} do not prevent it.
C12_RepairedValidates ==
    Revalidated =>
        \/ repairedValid
        \/ ~HasCommandToken(doc)
        \/ ~WellNested(doc, 1, <<>>)

\* C12 (amended): the repair only appends; the repaired document validates
\* exactly when the document is not blank, none of its closing braces stands
\* where no brace is open, no name has more ends than begins once the missing
\* closing braces are appended, and the repaired text holds a command token.
C12_RepairedValidatesUnlessSurplus ==
    Revalidated =>
        (repairedValid <=> /\ NonBlank(doc)
                           /\ NoEarlyClose(doc)
                           /\ NoSurplusEnd(Braced(doc))
                           /\ HasCommandToken(repaired))

\* C12 witness: a document that did not validate for an open brace and an
\* open environment validates once repaired.
C12_Witness ==
    /\ Revalidated
    /\ ~isValid
    /\ repairedValid
    /\ Includes(Appended(doc, repaired), <<"}">> \o EndKw)

\* C13: a document that validates is returned by balanceLatexTags as it is,
\* nothing appended, and so validates after the repair too.
C13_ValidDocumentUntouched ==
    /\ (Repaired /\ isValid) => repaired = doc
    /\ (Revalidated /\ isValid) => repairedValid

\* C13 witness: a valid document that opens and closes an environment went
\* through the repair and was validated again.
C13_Witness ==
    /\ Revalidated
    /\ isValid
    /\ EnvMatches(doc, 1, BeginKw) # <<>>
    /\ repaired = doc

\* C14: balanceLatexTags is idempotent: repairing a repaired document gives
\* the repaired document, also when the appended closing braces completed an
\* unterminated \begin{name or \end{name.
C14_RepairIdempotent ==
    latexPc = "rerepaired" => repairedTwice = repaired

\* C14 witness: the closing brace appended by the first repair completed an
\* unterminated \begin{a, which the same repair closed, and the second
\* repair added nothing.
C14_Witness ==
    /\ latexPc = "rerepaired"
    /\ Len(EnvMatches(repaired, 1, BeginKw)) > Len(EnvMatches(doc, 1, BeginKw))
    /\ repaired # doc
    /\ repairedTwice = repaired

\* \end{itemize}
EndItemize == EndKw \o <<"i", "t", "e", "m", "i", "z", "e", "}">>

\* C15 (as claimed): for the document \begin{itemize}\item{A} the repair
\* appends one closing brace and one \end{itemize}, and the repaired text
\* validates.
C15_ItemizeExample ==
    /\ (Repaired /\ doc = ExampleItemize)
           => repaired = ExampleItemize \o <<"}">> \o EndItemize
    /\ (Revalidated /\ doc = ExampleItemize) => repairedValid

\* C15 (amended): the braces of \begin{itemize}\item{A} are balanced, so the
\* repair appends \end{itemize} alone; the same text comes out for
\* \begin{itemize}\item{A, whose brace is open; the repaired text validates.
C15_ItemizeExampleNoBrace ==
    /\ (Repaired /\ doc \in {ExampleItemize, ExampleItemizeOpen})
           => repaired = ExampleItemize \o EndItemize
    /\ (Revalidated /\ doc \in {ExampleItemize, ExampleItemizeOpen}) => repairedValid

\* C15 witness: the example document was repaired and validated.
C15_Witness ==
    /\ Revalidated
    /\ doc = ExampleItemize
    /\ repaired = ExampleItemize \o EndItemize
    /\ repairedValid

----------------------------------------------------------------------------
(* Properties of the master resume *)

\* C16 (as claimed): an operation that creates or replaces the stored master
\* resume stores the new content only if it passes quickValidateLatex.
C16_MasterStoredOnlyIfValid ==
    [][master' # master => quickValidateLatex(master')]_vars

----------------------------------------------------------------------------
(* Properties of the rendering step *)

\* C17: in generate-from-linkedin the tailored resume is stored before it is
\* rendered; when rendering fails the response has the kind
\* pdf_generation_failed and names the record just stored, which stays in the
\* collection, and rendering issues no generative call.
C17_SavedBeforeRendering ==
    /\ [](pc = "pdf" =>
            /\ route = "POST_linkedin"
            /\ resumes # <<>>
            /\ resumes[Len(resumes)] = StoreDoc(customizedResume))
    /\ [](response.errorType = "pdf_generation_failed" =>
            /\ response.resumeId = Len(resumes)
            /\ response.resumeId >= 1
            /\ resumes[response.resumeId] = StoreDoc(customizedResume))
    /\ [][pc = "pdf" => (resumes' = resumes /\ calls' = calls)]_vars

\* C17 witness: rendering failed after the tailored resume was stored.
C17_Witness ==
    /\ pc = "done"
    /\ route = "POST_linkedin"
    /\ response.errorType = "pdf_generation_failed"
    /\ response.status = 500
    /\ response.resumeId = Len(resumes)
    /\ Len(resumes) >= 1

----------------------------------------------------------------------------
(* Properties of the routes that call the scraper *)

ScrapingRoutes == {"POST_linkedin", "POST_scrape"}

\* C18 (as claimed): in both routes that call the scraper a navigation
\* timeout is reported as timeout, an unreachable network as network_error,
\* neither title nor company extracted as extraction_failed and a missing
\* description as description_missing.
C18_ExtractionFailureKinds ==
    (pc = "done" /\ route \in ScrapingRoutes /\ scrapeResult = "threw") =>
        /\ (exitRoute = "navigate" /\ thrown = MsgTimeoutUser)
               => response.errorType = "timeout"
        /\ (exitRoute = "navigate" /\ thrown = MsgNetworkUser)
               => response.errorType = "network_error"
        /\ (exitRoute = "gate" /\ thrown = MsgCouldNotExtractUser)
               => response.errorType = "extraction_failed"
        /\ (exitRoute = "gate" /\ thrown = MsgNoDescriptionUser)
               => response.errorType = "description_missing"

\* the URL of the request is missing, not a string, or without linkedin.com/jobs
BadUrl ==
    \/ req.url.type # "string"
    \/ Len(req.url.value) = 0
    \/ ~Includes(req.url.value, <<"linkedin.com", "/jobs">>)

\* the handler came as far as its checks of the URL
ReachedUrlCheck ==
    \/ route = "POST_scrape"
    \/ /\ route = "POST_linkedin"
       /\ req.auth = "ok"
       /\ req.userFound
       /\ quickValidateLatex(master)

----------------------------------------------------------------------------
(* Properties of the canonical job URL *)

\* https://www.linkedin.com/jobs/view/{digits}, nothing behind the digits
CanonicalForm(u) ==
    /\ u.type = "string"
    /\ StartsWith(u.value, LinkedInOrigin \o JobsView)
    /\ Len(u.value) > Len(LinkedInOrigin \o JobsView)
    /\ \A k \in (Len(LinkedInOrigin \o JobsView) + 1)..Len(u.value) : u.value[k] \in Digits

\* the positions of the candidates that normalize
Normalizing ==
    {k \in 1..4 :
        normalizeLinkedInJobUrl(Candidates(jobContent, activeTab)[k].value) # NoCandidate}

\* C20: resolveLinkedInJobUrl returns the normalization of the first of its
\* candidates (job-content url, raw url, source url, active-tab url) that
\* normalizes and null when none does, so that the same candidates in the
\* same order always give the same result; every result that is not null has
\* the form https://www.linkedin.com/jobs/view/{digits}; the candidates
\* https://evil.example/x, https://www.linkedin.com/jobs/view/12345?trk=abc
\* give https://www.linkedin.com/jobs/view/12345.
C20_SameCandidatesSameResult ==
    urlPc = "resolved" =>
        LET candidates == Candidates(jobContent, activeTab)
        IN  /\ Normalizing # {} =>
                  LET first == CHOOSE k \in Normalizing : \A j \in Normalizing : k <= j
                  IN  resolved.url = normalizeLinkedInJobUrl(candidates[first].value)
            /\ Normalizing = {} => resolved.url = NoCandidate
            /\ resolved.url # NoCandidate => CanonicalForm(resolved.url)
            /\ (jobContent.url = UrlEvil /\ jobContent.rawUrl = UrlTracked) =>
                  resolved.url.value = LinkedInOrigin \o JobsView \o <<"1", "2", "3", "4", "5">>

\* C20, amended: resolveLinkedInJobUrl returns the normalization of the first
\* of its candidates that normalizes, whatever the page holds; every result
\* that is not null has the form https://www.linkedin.com/jobs/view/{digits};
\* the candidates https://evil.example/x,
\* https://www.linkedin.com/jobs/view/12345?trk=abc give
\* https://www.linkedin.com/jobs/view/12345; without a candidate that
\* normalizes the result is null unless the active tab is a search-results
\* page, where the result is the normalization of the URL found in the page.
C20_FirstMatchWins ==
    urlPc = "resolved" =>
        LET candidates == Candidates(jobContent, activeTab)
        IN  /\ Normalizing # {} =>
                  LET first == CHOOSE k \in Normalizing : \A j \in Normalizing : k <= j
                  IN  /\ resolved.url = normalizeLinkedInJobUrl(candidates[first].value)
                      /\ resolved.source = candidates[first].source
            /\ resolved.url # NoCandidate => CanonicalForm(resolved.url)
            /\ (jobContent.url = UrlEvil /\ jobContent.rawUrl = UrlTracked) =>
                  resolved.url.value = LinkedInOrigin \o JobsView \o <<"1", "2", "3", "4", "5">>
            /\ (Normalizing = {} /\ ~isLinkedInSearchResultsUrl(activeTab.url)) =>
                  resolved = [url |-> NoCandidate, source |-> "unresolved"]
            /\ (Normalizing = {} /\ isLinkedInSearchResultsUrl(activeTab.url)) =>
                  /\ resolved.url = normalizeLinkedInJobUrl(domExtracted)
                  /\ resolved.source =
                        IF resolved.url = NoCandidate THEN "unresolved" ELSE "dom-extraction"

\* C20 witness: the first candidate was of another site, the second one a
\* job URL with a tracking parameter, and later candidates normalize too.
C20_Witness ==
    /\ urlPc = "resolved"
    /\ jobContent.url = UrlEvil
    /\ jobContent.rawUrl = UrlTracked
    /\ jobContent.sourceUrl = UrlRelative
    /\ resolved.source = "job-content-raw-url"
    /\ resolved.url.value = LinkedInOrigin \o JobsView \o <<"1", "2", "3", "4", "5">>

----------------------------------------------------------------------------
(* Properties of the URL normalizers *)

\* linkedin.com, or a name below it
IsLinkedInHost(hostname) ==
    \/ hostname = LinkedInHost
    \/ /\ Len(hostname) > Len(LinkedInHost) + 1
       /\ SubSeq(hostname, Len(hostname) - Len(LinkedInHost), Len(hostname))
              = <<".">> \o LinkedInHost

\* the candidate, decoded, is an absolute URL of a host that is not LinkedIn
ForeignHost(candidate) ==
    /\ candidate.type = "string"
    /\ decodeURIComponent(candidate.value).ok
    /\ LET urlObj == ParseUrl(Trim(decodeURIComponent(candidate.value).value))
       IN  urlObj.ok /\ ~IsLinkedInHost(urlObj.hostname)

\* the result of a normalizer is as C21 wants it for this candidate
OnlyLinkedInAccepted(candidate, normalized) ==
    normalized # NoCandidate =>
        /\ CanonicalForm(normalized)
        /\ Includes(decodeURIComponent(candidate.value).value, LinkedInHost)
        /\ ~ForeignHost(candidate)

\* C21: both normalizers (ContentScript.normalizeLinkedInJobUrl and
\* PopupController.normalizeLinkedInJobUrl) accept a candidate only if, once
\* decoded, it contains linkedin.com and its path matches /jobs/view/{digits};
\* what they return is https://www.linkedin.com/jobs/view/{id}; a candidate
\* whose host is not LinkedIn is never accepted nor returned with its own
\* host or path.
C21_OnlyLinkedInAccepted ==
    normPc = "normalized" =>
        /\ OnlyLinkedInAccepted(jobContent.url, contentUrl)
        /\ OnlyLinkedInAccepted(jobContent.url, popupUrl)

----------------------------------------------------------------------------
(* Properties of the popup waiting for the background coordinator *)

\* C22: waitForServices never fails and never returns a status whose isReady
\* is not true: after a response that is not ready and after a messaging
\* error it waits and queries again, without a bound; once the coordinator
\* has answered GET_SESSION_STATUS with isReady = true, waitForServices
\* returns that status.
C22_WaitsUntilReady ==
    /\ [](waitPc \in {"done", "idle", "query", "answered", "sleeping", "returned"})
    /\ [](waitPc = "returned" =>
              sessionStatus = [kind |-> "status", isReady |-> TRUE])
    /\ [](waitPc = "sleeping" => <>(waitPc = "query"))
    /\ [][(waitPc = "answered" /\ ~(waitResponse.kind = "status" /\ waitResponse.isReady))
              => waitPc' \in {"answered", "sleeping"}]_vars
    /\ ((waitPc = "answered" /\ waitResponse.kind = "status" /\ waitResponse.isReady)
           ~> (waitPc = "returned" /\ sessionStatus.isReady))

\* C22 witness: waitForServices has returned a ready status after queries
\* that found no listener or a coordinator that was not ready.
C22_Witness ==
    /\ waitPc = "returned"
    /\ sessionStatus.isReady
    /\ polls >= 2

----------------------------------------------------------------------------
(* Properties of the error texts *)

\* the text holds a markup tag <...>
HasTag(text) ==
    \E p \in 1..Len(text) : text[p] = "<" /\ \E q \in (p + 1)..Len(text) : text[q] = ">"

\* the text begins with at most one "Resume generation failed:"
AtMostOnePrefix(text) ==
    PrefixMatch(text) # 0 =>
        PrefixMatch(Trim(SubSeq(text, PrefixMatch(text) + 1, Len(text)))) = 0

\* what a text shown to the user has to be
Presentable(text) ==
    /\ ~HasTag(text)
    /\ Len(text) <= MaxMessageLength + Len(FailedPrefix) + 1
    /\ AtMostOnePrefix(text)

\* C23: every error text shown to the user after a failed generation
\* request, whatever body the backend returned (JSON with an error field,
\* raw HTML or CSS, nothing), holds no markup tag <...>, has a bounded
\* length, and begins with at most one "Resume generation failed:".
C23_ErrorTextPresentable ==
    errPc = "shown" => Presentable(statusMessage) /\ Presentable(notification)

\* C23 witness: the body was a JSON object whose error field holds markup,
\* a repeated prefix and more than 200 characters, and its text was shown.
C23_Witness ==
    /\ errPc = "shown"
    /\ errBody.kind = "json_error"
    /\ HasTag(errBody.text)
    /\ Len(errBody.text) > MaxMessageLength
    /\ HasTag(responseError)
    /\ Len(statusMessage) > Len(DefaultMessage)

----------------------------------------------------------------------------
(* Properties of the tailored content *)

\* the dates of a document: its maximal runs of digits, which is how the
\* documents here write a dated entry
DatesOf(d) ==
    {SubSeq(d, i, SkipWhile(d, i, Digits) - 1) :
        i \in {k \in 1..Len(d) : d[k] \in Digits /\ (k = 1 \/ d[k - 1] \notin Digits)}}

\* C24: for a master document with N distinct dated entries, every tailored
\* document the pipeline has accepted as validated, and so stores or returns,
\* holds the same N dates verbatim, whatever the generative service answered.
C24_DatesPreserved ==
    validatedAt # 0 => DatesOf(master) \subseteq DatesOf(customizedResume)

----------------------------------------------------------------------------
(* Properties of the popup *)

\* the invocations of handleGenerateResume that are past the guard and
\* have not ended
Generating == {i \in 1..MaxClicks : genPc[i] \in {"extract", "resolve", "sent"}}

\* C25: tailoring from the popup is single-flight: at most one
\* GENERATE_TAILORED_RESUME request of a popup is in flight at any time, a
\* click while isGeneratingResume is true sends nothing, and
\* isGeneratingResume is false again once the operation has ended, by
\* success, by an unresolved job URL or by an error.
C25_SingleFlight ==
    /\ requestsInFlight <= 1
    /\ Cardinality(Generating) <= 1
    /\ isGeneratingResume <=> Generating # {}

\* C25 witness: one click was answered with an error, a later click found
\* the flag false again and has its request in flight, and a click made
\* meanwhile has returned without sending.
C25_Witness ==
    /\ \E i \in 1..MaxClicks : genPc[i] = "failed"
    /\ \E i \in 1..MaxClicks : genPc[i] = "sent"
    /\ \E i \in 1..MaxClicks : genPc[i] = "returned"
    /\ requestsInFlight = 1
    /\ isLoggedIn /\ isLinkedInJob

\* C28: whatever the number of init() calls, overlapping or one after the
\* other, _doInit runs at most once, and an init() call resolves only after
\* that run has finished.
C28_InitOnce ==
    /\ doInits <= 1
    /\ \A c \in 1..MaxCallers : authPc[c] = "resolved" => initPromise = "settled"

\* C28 witness: the call that started _doInit has resolved, a call that
\* found it under way is about to, and a call is still to come.
C28_Witness ==
    /\ \E c \in 1..MaxCallers : authPc[c] = "resolved"
    /\ \E c \in 1..MaxCallers : authPc[c] = "waiter"
    /\ \E c \in 1..MaxCallers : authPc[c] = "none"
    /\ doInits = 1
    /\ initialized

----------------------------------------------------------------------------
(* Properties of the description cascade *)

\* C26: during the fallback cascade a candidate replaces the current best
\* description only if it is strictly longer, so the length of the current
\* best description never decreases from one step to the next.
C26_NeverShorter == [][bestDescription' >= bestDescription]_vars

----------------------------------------------------------------------------
(* Properties of the resume status cache *)

\* C27: the resume status cache is invalidated on data change: once an
\* UPLOAD_RESUME request has completed with success, no later
\* GET_RESUME_STATUS response is served from, and no handler fills the cache
\* with, a status computed from the server's state before that upload, in
\* any interleaving of the two handlers.
C27_CacheInvalidated ==
    /\ ~staleServed
    /\ statusCache # NoCache => statusCache >= completedVersion

----------------------------------------------------------------------------
(* Properties of the background's listeners *)

\* C29: however many times BackgroundService.init() runs (at script load, on
\* runtime.onStartup, on runtime.onInstalled), exactly one runtime.onMessage
\* listener is registered, so that a message is dispatched to a handler
\* once and sendResponse is not invoked twice for it.
C29_OneListener ==
    /\ registered <= 1
    /\ sendResponses <= 1

----------------------------------------------------------------------------
(* Properties of one listener invocation *)

\* C30: a single invocation of a message listener (handleMessage in the
\* background, the onMessage listener of the content script) calls
\* sendResponse exactly once, for every message type, known or unknown,
\* whether the handler's work succeeds or throws.
C30_RespondsOnce ==
    /\ msgSends <= 1
    /\ msgPc = "done" => msgSends = 1

\* C30 witness: a handler whose work threw after an await has ended, and
\* one response was sent.
C30_Witness ==
    /\ msgPc = "done"
    /\ msgType = "FOCUS_TAB"
    /\ msgSends = 1

====
